---- MODULE Spec2Model ----
(***************************************************************************)
(* kloak: the delay scheduler, the virtual cursor and the main loop of     *)
(* src/unnamed/part_002, as a state machine.                               *)
(*                                                                         *)
(* Times are monotonic milliseconds, coordinates are whole pixels.  The    *)
(* random source is a word of RandWidth bits instead of 64, max_delay a    *)
(* few milliseconds instead of DEFAULT_MAX_DELAY_MS, and the output table  *)
(* has MAX_DRAWABLE_LAYERS slots, scaled down.                             *)
(***************************************************************************)
EXTENDS Integers, Sequences, FiniteSets, TLC

(***************************************************************************)
(* Bounds of the model.                                                    *)
(***************************************************************************)
MaxTime == 3
MaxEvents == 2
RandWidth == 3
MaxWalk == 40

(***************************************************************************)
(* Program constants.                                                      *)
(***************************************************************************)
max_delay == 2
MAX_DRAWABLE_LAYERS == 3
POLL_TIMEOUT_MS == 1

NoTime == 0 - 1

(***************************************************************************)
(* State.                                                                  *)
(***************************************************************************)
VARIABLES
  clock,                 \* CLOCK_MONOTONIC in ms, what current_time_ms() returns
  pc,                    \* position of main()'s loop
  pstate,                \* "running", "exited" (exit(1)) or "crashed" (SIGSEGV)
  head,                  \* the TAILQ of li_packet, first element = TAILQ_FIRST
  prev_release_time,
  next_mouse_move_time,
  cursor_x,
  cursor_y,
  prev_cursor_x,
  prev_cursor_y,
  layer,                 \* state.layer[]: alloc = FALSE is a NULL pointer
  output_name,           \* state.output_name[]; state.output[i] is non-NULL iff bound
  output,                \* state.output[]: the registry name bound, 0 = NULL
  xdg_output,            \* state.xdg_output[]: likewise
  output_geometry,       \* state.output_geometry[]: alloc = FALSE is a NULL pointer
  xdg_output_manager,    \* state.xdg_output_manager is bound
  global_space_width,
  global_space_height,
  virt_kb_keymap_set,    \* state.virt_kb_keymap_set
  xkb_state,             \* state.xkb_state: the set of xkb keycodes held down
  old_kb_map_shm,        \* state.old_kb_map_shm: text of the accepted keymap, 0 = NULL
  li_fds,                \* the descriptors li_open_restricted has returned to libinput
  shm,                   \* create_shm_file in progress: name[], randname's i and randchar
  detached_buffers,      \* the wl_buffers not yet released whose layer has been freed
  next_id,               \* history: number of packets admitted so far, plus one
  released,              \* history: ids handed to handle_libinput_event, in order
  last_op                \* history: the last call, and the requests it sent

schedVars == <<head, prev_release_time, next_mouse_move_time>>
cursorVars == <<cursor_x, cursor_y, prev_cursor_x, prev_cursor_y>>
dispVars ==
  <<layer, output_name, output, xdg_output, output_geometry, xdg_output_manager,
    global_space_width, global_space_height>>
kbVars == <<virt_kb_keymap_set, xkb_state, old_kb_map_shm>>
histVars == <<next_id, released, last_op>>
vars ==
  <<clock, pc, pstate, schedVars, cursorVars, dispVars, kbVars, li_fds, shm,
    detached_buffers, histVars>>

(***************************************************************************)
(* Small helpers.                                                          *)
(***************************************************************************)
Min(a, b) == IF a < b THEN a ELSE b

Max(a, b) == IF a > b THEN a ELSE b

\* A value converted to uint32_t.  The word is scaled to 20 bits, far above
\* every time and coordinate of the model, so that only negative values wrap.
Uint32(v) == v % (2 ^ 20)

(***************************************************************************)
(* libinput events.  One record shape for every kind; the fields a kind    *)
(* does not carry are 0.  A scroll value is a double, counted here in      *)
(* units of 1/512; an absent scroll axis is NoAxis, a value no event of    *)
(* the model carries.                                                      *)
(***************************************************************************)
NoAxis == 0 - 4096

Ev(type, key, st, vert, horiz, dx, dy) ==
  [type |-> type, key |-> key, state |-> st, vert |-> vert, horiz |-> horiz,
   dx |-> dx, dy |-> dy]

KeyEv(key, st) == Ev("KEYBOARD_KEY", key, st, NoAxis, NoAxis, 0, 0)

ButtonEv(button, st) == Ev("POINTER_BUTTON", button, st, NoAxis, NoAxis, 0, 0)

ScrollEv(type, vert, horiz) == Ev(type, 0, 0, vert, horiz, 0, 0)

PlainEv(type) == Ev(type, 0, 0, NoAxis, NoAxis, 0, 0)

MotionEv(dx, dy) == Ev("POINTER_MOTION", 0, 0, NoAxis, NoAxis, dx, dy)

MotionAbsEv(x, y) == Ev("POINTER_MOTION_ABSOLUTE", 0, 0, NoAxis, NoAxis, x, y)

NoEvent == PlainEv("NONE")

ScrollTypes ==
  {"POINTER_SCROLL_WHEEL", "POINTER_SCROLL_FINGER", "POINTER_SCROLL_CONTINUOUS"}

MotionTypes == {"POINTER_MOTION", "POINTER_MOTION_ABSOLUTE"}

(***************************************************************************)
(* Requests sent to the compositor on the virtual keyboard and the virtual *)
(* pointer.  call is the id of the packet whose handle_libinput_event call *)
(* sent the request, 0 for a request sent from elsewhere.                  *)
(***************************************************************************)
Req(obj, req, time, a, b, c, d, call) ==
  [obj |-> obj, req |-> req, time |-> time, a |-> a, b |-> b, c |-> c, d |-> d,
   call |-> call]

(***************************************************************************)
(* random_between: the values a call can return.  The rejection loop reads *)
(* raw words until one is below the threshold; the threshold expression    *)
(* INT64_MAX - INT64_MAX - maxval is -maxval, which the comparison with    *)
(* the unsigned raw word converts to 2^width - maxval.                     *)
(***************************************************************************)
RandRaw == 0 .. (2 ^ RandWidth - 1)

RejectFrom(maxval) == (0 - maxval) % (2 ^ RandWidth)

\* random_between with maxval computed as upper + 1.
random_between_forgot_lower(lower, upper) ==
  IF lower >= upper
    THEN {upper}
    ELSE LET maxval == upper + 1
         IN {lower + (r % maxval) : r \in {v \in RandRaw : ~(v >= RejectFrom(maxval))}}

\* The raw words that end the loop of lines 140-142.
accepted_raw(maxval) == {v \in RandRaw : ~(v >= RejectFrom(maxval))}

random_between(lower, upper) ==
  IF lower >= upper
    THEN {upper}
    ELSE LET maxval == upper - lower + 1
         IN {lower + (r % maxval) : r \in accepted_raw(maxval)}


(***************************************************************************)
(* read_random: whether the call ends the process, ret being what read     *)
(* returned for a request of len bytes.  read returns a ssize_t, which the *)
(* comparison with the size_t len converts to size_t.                      *)
(***************************************************************************)
SizeT(v) == v % (2 ^ 20)

read_random(ret, len) == SizeT(ret) < len

\* sizeof(uint64_t), the length random_between asks for.
RandBytes == 8

\* What read can return for RandBytes bytes: an error, no byte, some of the
\* bytes, all of them.
ReadReturns == {0 - 1, 0, RandBytes - 1, RandBytes}

NoRead == 0 - 2

(***************************************************************************)
(* Outputs, overlays and their geometry.                                   *)
(***************************************************************************)
Slots == 0 .. (MAX_DRAWABLE_LAYERS - 1)

NullLayer ==
  [alloc |-> FALSE, frame_released |-> FALSE, frame_pending |-> FALSE,
   last_drawn_cursor_x |-> 0, last_drawn_cursor_y |-> 0,
   layer_surface_configured |-> FALSE, buffer |-> 0, width |-> 0, height |-> 0]

NewLayer ==
  [alloc |-> TRUE, frame_released |-> TRUE, frame_pending |-> TRUE,
   last_drawn_cursor_x |-> 0 - 1, last_drawn_cursor_y |-> 0 - 1,
   layer_surface_configured |-> FALSE, buffer |-> 0, width |-> 0, height |-> 0]

NullGeometry ==
  [alloc |-> FALSE, x |-> 0, y |-> 0, width |-> 0, height |-> 0, init_done |-> FALSE]

NewGeometry ==
  [alloc |-> TRUE, x |-> 0, y |-> 0, width |-> 0, height |-> 0, init_done |-> FALSE]

Coord(x, y) == [x |-> x, y |-> y]

Covers(g, x, y) ==
  /\ g.alloc
  /\ g.init_done
  /\ x >= g.x
  /\ y >= g.y
  /\ x < g.x + g.width
  /\ y < g.y + g.height

abs_coord_to_screen_local_coord(geom, x, y) ==
  LET hits == {i \in Slots : Covers(geom[i], x, y)}
  IN IF hits = {}
       THEN [x |-> 0, y |-> 0, output_idx |-> 0, valid |-> FALSE]
       ELSE LET i == CHOOSE h \in hits : \A o \in hits : h <= o
            IN [x |-> x - geom[i].x, y |-> y - geom[i].y, output_idx |-> i,
                valid |-> TRUE]

\* Called only for a slot whose layer is allocated; reading the geometry of a
\* slot that has none is a NULL dereference, reported by the caller.
screen_local_coord_to_abs_coord(lay, geom, x, y, output_idx) ==
  IF \/ ~lay[output_idx].alloc
     \/ x >= geom[output_idx].width
     \/ y >= geom[output_idx].height
    THEN Coord(0 - 1, 0 - 1)
    ELSE Coord(geom[output_idx].x + x, geom[output_idx].y + y)

(***************************************************************************)
(* traverse_line.  (int32_t)((double) pos * steep) is the integer quotient *)
(* pos * |dy| / |dx|, and (int32_t)((double) pos * (1 / steep)) is         *)
(* pos * |dx| / |dy| except where the two roundings of the double          *)
(* arithmetic leave the product just below the integer: InexactSteep lists *)
(* those <<pos, |dx|, |dy|>> for |dx|, |dy| <= 12 and pos <= 45 (the       *)
(* shallow branch has none in that range).                                 *)
(***************************************************************************)
InexactSteep ==
  {<<9, 7, 9>>, <<18, 7, 9>>, <<27, 7, 9>>, <<36, 7, 9>>, <<45, 7, 9>>,
   <<30, 9, 10>>, <<33, 9, 11>>}

Abs(v) == IF v < 0 THEN 0 - v ELSE v

ShallowStep(pos, adx, ady) == (pos * ady) \div adx

SteepStep(pos, adx, ady) ==
  ((pos * adx) \div ady) - (IF <<pos, adx, ady>> \in InexactSteep THEN 1 ELSE 0)

traverse_line(start, end, pos) ==
  LET adx == Abs(start.x - end.x)
      ady == Abs(end.y - start.y)
  IN IF pos = 0 THEN start
     ELSE IF start.x - end.x = 0
       THEN Coord(start.x, IF start.y < end.y THEN start.y + pos ELSE start.y - pos)
     ELSE IF ady < adx
       THEN Coord(IF start.x < end.x THEN start.x + pos ELSE start.x - pos,
                  IF start.y < end.y
                    THEN start.y + ShallowStep(pos, adx, ady)
                    ELSE start.y - ShallowStep(pos, adx, ady))
     ELSE Coord(IF start.x < end.x
                  THEN start.x + SteepStep(pos, adx, ady)
                  ELSE start.x - SteepStep(pos, adx, ady),
                IF start.y < end.y THEN start.y + pos ELSE start.y - pos)


(***************************************************************************)
(* update_virtual_cursor.                                                  *)
(***************************************************************************)
OnScreen(geom, x, y) == abs_coord_to_screen_local_coord(geom, x, y).valid

\* The reset loop of lines 871-881, from slot i on.  acc carries the cursor
\* variables and prev_coord_data; crash is the dereference of a NULL
\* output_geometry[i] inside screen_local_coord_to_abs_coord.
RECURSIVE reset_cursor(_, _, _, _)
reset_cursor(lay, geom, i, acc) ==
  IF i = MAX_DRAWABLE_LAYERS THEN acc
  ELSE IF ~lay[i].alloc THEN reset_cursor(lay, geom, i + 1, acc)
  ELSE IF ~geom[i].alloc THEN [acc EXCEPT !.crash = TRUE]
  ELSE LET sane_location == screen_local_coord_to_abs_coord(lay, geom, 0, 0, i)
       IN reset_cursor(lay, geom, i + 1,
            [prev |-> sane_location, cur |-> sane_location,
             prev_coord_data |->
               abs_coord_to_screen_local_coord(geom, sane_location.x, sane_location.y),
             crash |-> FALSE])

\* A pass that never glides: the walk goes on through the void.
walk_pass_no_glide(geom, st) ==
  LET trav == traverse_line(st.start, st.end, st.i)
      x_hit == st.end_x_hit \/ trav.x = st.end.x
      y_hit == st.end_y_hit \/ trav.y = st.end.y
      cont == [st EXCEPT !.i = 0, !.end_x_hit = x_hit, !.end_y_hit = y_hit]
  IN IF x_hit /\ y_hit THEN [cont EXCEPT !.done = TRUE]
     ELSE [cont EXCEPT !.prev_trav = trav, !.i = st.i + 1]

\* A pass whose glide branches restart the walk from the neighbouring pixel
\* without moving the end onto the line walked next.
walk_pass_end_kept(geom, st) ==
  LET trav == traverse_line(st.start, st.end, st.i)
      x_hit == st.end_x_hit \/ trav.x = st.end.x
      y_hit == st.end_y_hit \/ trav.y = st.end.y
      off == ~OnScreen(geom, trav.x, trav.y)
      cont == [st EXCEPT !.i = 0, !.end_x_hit = x_hit, !.end_y_hit = y_hit]
  IN IF off /\ st.prev_trav.x < trav.x /\ OnScreen(geom, trav.x - 1, trav.y)
       THEN [cont EXCEPT !.start = Coord(trav.x - 1, trav.y)]
     ELSE IF off /\ st.prev_trav.x > trav.x /\ OnScreen(geom, trav.x + 1, trav.y)
       THEN [cont EXCEPT !.start = Coord(trav.x + 1, trav.y)]
     ELSE IF off /\ st.prev_trav.y < trav.y /\ OnScreen(geom, trav.x, trav.y - 1)
       THEN [cont EXCEPT !.start = Coord(trav.x, trav.y - 1)]
     ELSE IF off /\ st.prev_trav.y > trav.y /\ OnScreen(geom, trav.x, trav.y + 1)
       THEN [cont EXCEPT !.start = Coord(trav.x, trav.y + 1)]
     ELSE IF x_hit /\ y_hit THEN [cont EXCEPT !.done = TRUE]
     ELSE [cont EXCEPT !.prev_trav = trav, !.i = st.i + 1]

\* One pass of the for loop of lines 924-984.  st is the loop's state: start,
\* end, prev_trav, i and the two flags; glide names the branch of lines
\* 933-972 that restarts the walk ("" if none does) and done is the break of
\* line 981.
walk_pass(geom, st) ==
  LET trav == traverse_line(st.start, st.end, st.i)
      x_hit == st.end_x_hit \/ trav.x = st.end.x
      y_hit == st.end_y_hit \/ trav.y = st.end.y
      off == ~OnScreen(geom, trav.x, trav.y)
      glide ==
        IF off /\ st.prev_trav.x < trav.x /\ OnScreen(geom, trav.x - 1, trav.y) THEN "left"
        ELSE IF off /\ st.prev_trav.x > trav.x /\ OnScreen(geom, trav.x + 1, trav.y)
          THEN "right"
        ELSE IF off /\ st.prev_trav.y < trav.y /\ OnScreen(geom, trav.x, trav.y - 1)
          THEN "up"
        ELSE IF off /\ st.prev_trav.y > trav.y /\ OnScreen(geom, trav.x, trav.y + 1)
          THEN "down"
        ELSE ""
      cont == [st EXCEPT !.i = 0, !.end_x_hit = x_hit, !.end_y_hit = y_hit]
  IN CASE glide = "left" ->
            [cont EXCEPT !.start = Coord(trav.x - 1, trav.y),
                         !.end = Coord(trav.x - 1, st.end.y)]
       [] glide = "right" ->
            [cont EXCEPT !.start = Coord(trav.x + 1, trav.y),
                         !.end = Coord(trav.x + 1, st.end.y)]
       [] glide = "up" ->
            [cont EXCEPT !.start = Coord(trav.x, trav.y - 1),
                         !.end = Coord(st.end.x, trav.y - 1)]
       [] glide = "down" ->
            [cont EXCEPT !.start = Coord(trav.x, trav.y + 1),
                         !.end = Coord(st.end.x, trav.y + 1)]
       [] OTHER ->
            IF x_hit /\ y_hit THEN [cont EXCEPT !.done = TRUE]
            ELSE [cont EXCEPT !.prev_trav = trav, !.i = st.i + 1]

\* The loop of lines 924-984 from state st on.  fuel bounds the number of
\* passes; finished = FALSE reports that it ran out.
RECURSIVE walk(_, _, _)
walk(geom, st, fuel) ==
  IF fuel = 0 THEN [end |-> st.end, finished |-> FALSE]
  ELSE CHOOSE w \in {IF p.done THEN [end |-> p.end, finished |-> TRUE]
                     ELSE walk(geom, p, fuel - 1) : p \in {walk_pass(geom, st)}} : TRUE

\* Lines 913-923.
walk_start(start, end) ==
  [done |-> FALSE, start |-> start, end |-> end, prev_trav |-> start, i |-> 0,
   end_x_hit |-> FALSE, end_y_hit |-> FALSE]

\* The result of update_virtual_cursor called with the cursor variables set
\* to prev and cur: the new variables, the layers with frame_pending set, and
\* crash for a NULL dereference (lines 873, 988, 989).  start and want are
\* the ends of the walk as it begins, after the reset of lines 867-882.
update_virtual_cursor(lay, geom, prev, cur) ==
  LET prev_coord_data0 == abs_coord_to_screen_local_coord(geom, prev.x, prev.y)
      acc0 == [prev |-> prev, cur |-> cur, prev_coord_data |-> prev_coord_data0,
               crash |-> FALSE]
      reset == ~prev_coord_data0.valid \/ ~lay[prev_coord_data0.output_idx].alloc
      acc == IF reset THEN reset_cursor(lay, geom, 0, acc0) ELSE acc0
      w == walk(geom, walk_start(acc.prev, acc.cur), MaxWalk)
      coord_data == abs_coord_to_screen_local_coord(geom, w.end.x, w.end.y)
      pidx == acc.prev_coord_data.output_idx
      cidx == coord_data.output_idx
      crash == acc.crash \/ ~lay[pidx].alloc \/ ~lay[cidx].alloc
  IN [crash |-> crash,
      finished |-> acc.crash \/ w.finished,
      reset |-> reset,
      start |-> acc.prev,
      want |-> acc.cur,
      prev |-> acc.prev,
      cur |-> IF acc.crash THEN acc.cur ELSE w.end,
      layer |-> IF crash THEN lay
                ELSE [i \in Slots |->
                       IF i = pidx \/ i = cidx
                         THEN [lay[i] EXCEPT !.frame_pending = TRUE]
                         ELSE lay[i]]]


(***************************************************************************)
(* The keymap-state tracker (xkbcommon), reduced to what the daemon asks   *)
(* of it: the set of keycodes held down, Shift (evdev 42, xkb 50) as the   *)
(* one modifier, no latched or locked modifiers and one layout group.      *)
(***************************************************************************)
xkb_state_serialize_mods_depressed(xkb) == IF (42 + 8) \in xkb THEN 1 ELSE 0

xkb_state_update_key(xkb, keycode, down) ==
  IF down THEN xkb \cup {keycode} ELSE xkb \ {keycode}

(***************************************************************************)
(* handle_libinput_event: the requests it sends, in order, and the tracker *)
(* state it leaves.  call is the id of the packet being handled.           *)
(***************************************************************************)
AxisSource(ev_type) ==
  CASE ev_type = "POINTER_SCROLL_WHEEL" -> 0
    [] ev_type = "POINTER_SCROLL_FINGER" -> 1
    [] OTHER -> 2

\* wl_fixed_from_double of a value of v / 512: the nearest multiple of
\* 1 / 256, the even one of two equally near, counted in units of 1 / 256.
wl_fixed_from_double(v) ==
  LET q == v \div 2
  IN IF v % 2 = 0 \/ q % 2 = 0 THEN q ELSE q + 1

\* The axis block sending an axis event for every value.
ScrollAxisReqs_no_stop(ev_type, present, value, axis, ts, call) ==
  IF ~present THEN <<>>
  ELSE <<Req("virt_pointer", "axis", ts, axis, wl_fixed_from_double(value), 0, 0, call),
         Req("virt_pointer", "axis_source", NoTime, AxisSource(ev_type), 0, 0, 0, call)>>

\* Lines 1033-1059 (axis 0, vertical) and 1061-1086 (axis 1, horizontal).
ScrollAxisReqs(ev_type, present, value, axis, ts, call) ==
  IF ~present THEN <<>>
  ELSE <<IF value = 0
           THEN Req("virt_pointer", "axis_stop", ts, axis, 0, 0, 0, call)
           ELSE Req("virt_pointer", "axis", ts, axis, wl_fixed_from_double(value),
                    0, 0, call),
         Req("virt_pointer", "axis_source", NoTime, AxisSource(ev_type), 0, 0, 0, call)>>

\* handle_libinput_event sending the frame marker for buttons only.
handle_libinput_event_button_frame(li_event, ts_milliseconds, call, keymap_set, xkb) ==
  IF li_event.type = "KEYBOARD_KEY" /\ keymap_set
    THEN [reqs |-> <<Req("virt_kb", "modifiers", NoTime,
                         xkb_state_serialize_mods_depressed(xkb), 0, 0, 0, call),
                     Req("virt_kb", "key", ts_milliseconds, li_event.key,
                         li_event.state, 0, 0, call)>>,
          xkb |-> xkb_state_update_key(xkb, li_event.key + 8, li_event.state = 1)]
  ELSE IF li_event.type = "POINTER_BUTTON"
    THEN [reqs |-> <<Req("virt_pointer", "button", ts_milliseconds, li_event.key,
                         IF li_event.state = 1 THEN 1 ELSE 0, 0, 0, call),
                     Req("virt_pointer", "frame", NoTime, 0, 0, 0, 0, call)>>,
          xkb |-> xkb]
  ELSE IF li_event.type \in ScrollTypes
    THEN [reqs |-> ScrollAxisReqs(li_event.type, li_event.vert # NoAxis, li_event.vert,
                                  0, ts_milliseconds, call)
                   \o ScrollAxisReqs(li_event.type, li_event.horiz # NoAxis,
                                     li_event.horiz, 1, ts_milliseconds, call),
          xkb |-> xkb]
  ELSE [reqs |-> <<>>, xkb |-> xkb]

\* handle_libinput_event sending the key before the modifiers.
handle_libinput_event_key_first(li_event, ts_milliseconds, call, keymap_set, xkb) ==
  IF li_event.type = "KEYBOARD_KEY" /\ keymap_set
    THEN [reqs |-> <<Req("virt_kb", "key", ts_milliseconds, li_event.key,
                         li_event.state, 0, 0, call),
                     Req("virt_kb", "modifiers", NoTime,
                         xkb_state_serialize_mods_depressed(xkb), 0, 0, 0, call)>>,
          xkb |-> xkb_state_update_key(xkb, li_event.key + 8, li_event.state = 1)]
  ELSE IF li_event.type = "POINTER_BUTTON"
    THEN [reqs |-> <<Req("virt_pointer", "button", ts_milliseconds, li_event.key,
                         IF li_event.state = 1 THEN 1 ELSE 0, 0, 0, call),
                     Req("virt_pointer", "frame", NoTime, 0, 0, 0, 0, call)>>,
          xkb |-> xkb]
  ELSE [reqs |-> <<>>, xkb |-> xkb]

\* handle_libinput_event advancing the tracker before it serializes the
\* modifiers.
handle_libinput_event_tracker_first(li_event, ts_milliseconds, call, keymap_set, xkb) ==
  IF li_event.type = "KEYBOARD_KEY" /\ keymap_set
    THEN LET after == xkb_state_update_key(xkb, li_event.key + 8, li_event.state = 1)
         IN [reqs |-> <<Req("virt_kb", "modifiers", NoTime,
                            xkb_state_serialize_mods_depressed(after), 0, 0, 0, call),
                        Req("virt_kb", "key", ts_milliseconds, li_event.key,
                            li_event.state, 0, 0, call)>>,
             xkb |-> after]
  ELSE IF li_event.type = "POINTER_BUTTON"
    THEN [reqs |-> <<Req("virt_pointer", "button", ts_milliseconds, li_event.key,
                         IF li_event.state = 1 THEN 1 ELSE 0, 0, 0, call),
                     Req("virt_pointer", "frame", NoTime, 0, 0, 0, 0, call)>>,
          xkb |-> xkb]
  ELSE [reqs |-> <<>>, xkb |-> xkb]

\* handle_libinput_event without the test of line 1089.
handle_libinput_event_keymap_unchecked(li_event, ts_milliseconds, call, keymap_set, xkb) ==
  IF li_event.type = "KEYBOARD_KEY"
    THEN [reqs |-> <<Req("virt_kb", "modifiers", NoTime,
                         xkb_state_serialize_mods_depressed(xkb), 0, 0, 0, call),
                     Req("virt_kb", "key", ts_milliseconds, li_event.key,
                         li_event.state, 0, 0, call)>>,
          xkb |-> xkb_state_update_key(xkb, li_event.key + 8, li_event.state = 1)]
  ELSE IF li_event.type = "POINTER_BUTTON"
    THEN [reqs |-> <<Req("virt_pointer", "button", ts_milliseconds, li_event.key,
                         IF li_event.state = 1 THEN 1 ELSE 0, 0, 0, call),
                     Req("virt_pointer", "frame", NoTime, 0, 0, 0, 0, call)>>,
          xkb |-> xkb]
  ELSE [reqs |-> <<>>, xkb |-> xkb]

handle_libinput_event(li_event, ts_milliseconds, call, keymap_set, xkb) ==
  LET ev_type == li_event.type
      mouse_event_handled == ev_type = "POINTER_BUTTON" \/ ev_type \in ScrollTypes
      frame == IF mouse_event_handled
                 THEN <<Req("virt_pointer", "frame", NoTime, 0, 0, 0, 0, call)>>
                 ELSE <<>>
  IN IF ev_type = "DEVICE_ADDED" THEN [reqs |-> <<>>, xkb |-> xkb]
     ELSE IF ev_type = "POINTER_BUTTON"
       THEN [reqs |-> <<Req("virt_pointer", "button", ts_milliseconds, li_event.key,
                            IF li_event.state = 1 THEN 1 ELSE 0, 0, 0, call)>> \o frame,
             xkb |-> xkb]
     ELSE IF ev_type \in ScrollTypes
       THEN [reqs |-> ScrollAxisReqs(ev_type, li_event.vert # NoAxis, li_event.vert, 0,
                                     ts_milliseconds, call)
                      \o ScrollAxisReqs(ev_type, li_event.horiz # NoAxis, li_event.horiz,
                                        1, ts_milliseconds, call)
                      \o frame,
             xkb |-> xkb]
     ELSE IF ev_type = "KEYBOARD_KEY" /\ keymap_set
       THEN [reqs |-> <<Req("virt_kb", "modifiers", NoTime,
                            xkb_state_serialize_mods_depressed(xkb), 0, 0, 0, call),
                        Req("virt_kb", "key", ts_milliseconds, li_event.key,
                            li_event.state, 0, 0, call)>>,
             xkb |-> xkb_state_update_key(xkb, li_event.key + 8, li_event.state = 1)]
     ELSE [reqs |-> <<>>, xkb |-> xkb]

(***************************************************************************)
(* History records.                                                        *)
(***************************************************************************)
\* op names the function called and now the clock value it read; ev is the
\* event passed to schedule_libinput_event, draws the number of
\* random_between calls that read the random source, emitted the packets
\* handed to handle_libinput_event, reqs the requests sent on the virtual
\* keyboard and pointer, in order; start, want and reset describe the walk
\* of update_virtual_cursor; writes are the stores of draw_block into the
\* layers' pixel buffers.  "remove" and "done" are the calls of
\* registry_handle_global_remove and wl_output_info_done that reach
\* recalc_global_space, "remove_unknown" and "done_zero" those that return
\* before, and "global" is a call of registry_handle_global;
\* "release_detached" is a call of wl_buffer_release for a buffer no layer
\* holds.  read is what the read call of read_random returned
\* to the random_between call of the operation, NoRead when the operation is
\* not followed further than to a read that delivers.
Op(op, now, ev, draws, emitted, reqs, start, want, reset) ==
  [op |-> op, now |-> now, ev |-> ev, draws |-> draws, emitted |-> emitted,
   reqs |-> reqs, start |-> start, want |-> want, reset |-> reset, read |-> NoRead,
   writes |-> {}]

PlainOp(op, now) ==
  Op(op, now, NoEvent, 0, <<>>, <<>>, Coord(0, 0), Coord(0, 0), FALSE)

\* The step made none of the calls above and sent no request.
NoOp == PlainOp("none", 0)

(***************************************************************************)
(* schedule_libinput_event.                                                *)
(***************************************************************************)
Running == pstate = "running"

\* CLOCK_MONOTONIC counts from boot.  The process starts at clock value 0 or
\* at LateBoot, two milliseconds before the clock's low 32 bits (scaled as
\* Uint32 is) wrap; Elapsed is the time since the process started.
LateBoot == (2 ^ 20) - 2

Elapsed == IF clock >= LateBoot THEN clock - LateBoot ELSE clock

\* Lines 1134-1138 and 1146-1156: the cursor variables are set to the
\* requested position (want_x, want_y), then update_virtual_cursor runs.
apply_motion(ev, want_x, want_y) ==
  \E r \in {update_virtual_cursor(layer, output_geometry,
                                  Coord(cursor_x, cursor_y), Coord(want_x, want_y))} :
     /\ pstate' = IF r.crash THEN "crashed" ELSE "running"
     /\ prev_cursor_x' = r.prev.x
     /\ prev_cursor_y' = r.prev.y
     /\ cursor_x' = r.cur.x
     /\ cursor_y' = r.cur.y
     /\ layer' = r.layer
     /\ last_op' = Op("schedule", clock, ev, 0, <<>>, <<>>, r.start, r.want, r.reset)
     /\ UNCHANGED <<detached_buffers, shm, li_fds>>
     /\ UNCHANGED <<clock, pc, schedVars, kbVars, next_id, released>>
     /\ UNCHANGED <<output_name, output, xdg_output, output_geometry, xdg_output_manager,
                    global_space_width, global_space_height>>

\* What libinput_event_pointer_get_absolute_x_transformed makes of a device
\* coordinate in 0 .. AbsRange - 1: a position in 0 .. extent - 1.
AbsRange == 4

absolute_transformed(v, extent) == (v * extent) \div AbsRange

ClampRel(v, extent) ==
  LET low == IF v < 0 THEN 0 ELSE v
  IN IF low > Uint32(extent - 1) THEN Uint32(extent - 1) ELSE low

\* lower_bound without the reference to prev_release_time.
lower_bound_zero(current_time) == 0

\* Line 1160.
lower_bound(current_time) ==
  Min(Max(prev_release_time - current_time, 0), max_delay)

\* Lines 1160-1172, the read of random_between returning one of rets.  A
\* read that returns less than asked for, as read_random sees it, ends the
\* process; after a read that fails without read_random seeing it,
\* randval holds what it held before, which is any word.
admit_packet_reading(ev, rets) ==
  LET current_time == clock
      reads == lower_bound(current_time) < max_delay
  IN \E ret \in IF reads THEN rets ELSE {NoRead} :
       IF reads /\ read_random(ret, RandBytes)
         THEN /\ pstate' = "exited"
              /\ last_op' = [Op("schedule", current_time, ev, 1, <<>>, <<>>,
                                Coord(0, 0), Coord(0, 0), FALSE) EXCEPT !.read = ret]
              /\ UNCHANGED <<detached_buffers, shm, li_fds>>
              /\ UNCHANGED <<clock, pc, schedVars, cursorVars, dispVars, kbVars,
                             next_id, released>>
         ELSE \E random_delay \in random_between(lower_bound(current_time), max_delay) :
                LET ev_packet == [li_event |-> ev,
                                  sched_time |-> current_time + random_delay,
                                  id |-> next_id]
                IN /\ head' = Append(head, ev_packet)
                   /\ prev_release_time' = ev_packet.sched_time
                   /\ next_id' = next_id + 1
                   /\ last_op' = [Op("schedule", current_time, ev,
                                     IF reads THEN 1 ELSE 0,
                                     <<>>, <<>>, Coord(0, 0), Coord(0, 0), FALSE)
                                    EXCEPT !.read = IF ret = RandBytes THEN NoRead ELSE ret]
                   /\ UNCHANGED <<detached_buffers, shm, li_fds>>
                   /\ UNCHANGED <<clock, pc, pstate, next_mouse_move_time, cursorVars,
                                  dispVars, kbVars, released>>

\* Lines 1160-1172 with a random source that delivers.
admit_packet(ev) == admit_packet_reading(ev, {RandBytes})

\* Lines 1130-1137 and 1144-1155: the position the cursor variables are set
\* to before update_virtual_cursor runs.
requested_position(ev) ==
  IF ev.type = "POINTER_MOTION_ABSOLUTE"
    THEN Coord(absolute_transformed(ev.dx, global_space_width),
               absolute_transformed(ev.dy, global_space_height))
    ELSE Coord(ClampRel(cursor_x + ev.dx, global_space_width),
               ClampRel(cursor_y + ev.dy, global_space_height))

\* schedule_libinput_event without the two pointer-motion branches.
schedule_libinput_event_all_queued(ev) ==
  /\ Running
  /\ pc = "input"
  /\ next_id <= MaxEvents
  /\ Elapsed + max_delay <= MaxTime
  /\ admit_packet(ev)

\* One libinput event read by the loop of lines 1281-1287.  Admission stops
\* after MaxEvents packets and MaxTime - max_delay after the start, so that
\* every release time lies within the clock's range.
schedule_libinput_event(ev) ==
  /\ Running
  /\ pc = "input"
  /\ IF ev.type \in MotionTypes
       THEN LET want == requested_position(ev)
            IN apply_motion(ev, want.x, want.y)
       ELSE /\ next_id <= MaxEvents
            /\ Elapsed + max_delay <= MaxTime
            /\ admit_packet(ev)

\* The same with a random source whose reads return one of ReadReturns.
schedule_libinput_event_reading(ev) ==
  /\ Running
  /\ pc = "input"
  /\ IF ev.type \in MotionTypes
       THEN LET want == requested_position(ev)
            IN apply_motion(ev, want.x, want.y)
       ELSE /\ next_id <= MaxEvents
            /\ Elapsed + max_delay <= MaxTime
            /\ admit_packet_reading(ev, ReadReturns)


(***************************************************************************)
(* release_scheduled_libinput_events.                                      *)
(***************************************************************************)
\* The while loop taking the newest packet (TAILQ_LAST) first.
RECURSIVE drain_newest_first(_, _, _, _)
drain_newest_first(q, current_time, keymap_set, acc) ==
  IF q = <<>> \/ ~(current_time >= q[Len(q)].sched_time)
    THEN [acc EXCEPT !.rest = q]
    ELSE LET packet == q[Len(q)]
             rest == SubSeq(q, 1, Len(q) - 1)
             h == handle_libinput_event(packet.li_event, Uint32(packet.sched_time),
                                        packet.id, keymap_set, acc.xkb)
         IN drain_newest_first(rest, current_time, keymap_set,
                               [rest |-> rest, reqs |-> acc.reqs \o h.reqs, xkb |-> h.xkb,
                                emitted |-> Append(acc.emitted, packet)])

\* The while loop with the test current_time > packet->sched_time.
RECURSIVE drain_strict(_, _, _, _)
drain_strict(q, current_time, keymap_set, acc) ==
  IF q = <<>> \/ ~(current_time > Head(q).sched_time)
    THEN [acc EXCEPT !.rest = q]
    ELSE LET packet == Head(q)
             h == handle_libinput_event(packet.li_event, Uint32(packet.sched_time),
                                        packet.id, keymap_set, acc.xkb)
         IN drain_strict(Tail(q), current_time, keymap_set,
                         [rest |-> Tail(q), reqs |-> acc.reqs \o h.reqs, xkb |-> h.xkb,
                          emitted |-> Append(acc.emitted, packet)])

\* The while loop stamping the requests with the time of the drain.
RECURSIVE drain_stamped_now(_, _, _, _)
drain_stamped_now(q, current_time, keymap_set, acc) ==
  IF q = <<>> \/ ~(current_time >= Head(q).sched_time)
    THEN [acc EXCEPT !.rest = q]
    ELSE LET packet == Head(q)
             h == handle_libinput_event(packet.li_event, Uint32(current_time),
                                        packet.id, keymap_set, acc.xkb)
         IN drain_stamped_now(Tail(q), current_time, keymap_set,
                              [rest |-> Tail(q), reqs |-> acc.reqs \o h.reqs,
                               xkb |-> h.xkb, emitted |-> Append(acc.emitted, packet)])

\* The while loop of lines 1178-1184 over queue q at current_time.
RECURSIVE drain(_, _, _, _)
drain(q, current_time, keymap_set, acc) ==
  IF q = <<>> \/ ~(current_time >= Head(q).sched_time)
    THEN [acc EXCEPT !.rest = q]
    ELSE LET packet == Head(q)
             h == handle_libinput_event(packet.li_event, Uint32(packet.sched_time),
                                        packet.id, keymap_set, acc.xkb)
         IN drain(Tail(q), current_time, keymap_set,
                  [rest |-> Tail(q), reqs |-> acc.reqs \o h.reqs, xkb |-> h.xkb,
                   emitted |-> Append(acc.emitted, packet)])

release_scheduled_libinput_events ==
  LET current_time == clock
      d == drain(head, current_time, virt_kb_keymap_set,
                 [rest |-> head, reqs |-> <<>>, xkb |-> xkb_state, emitted |-> <<>>])
  IN /\ head' = d.rest
     /\ xkb_state' = d.xkb
     /\ released' = released \o [k \in 1 .. Len(d.emitted) |-> d.emitted[k].id]
     /\ last_op' = Op("release", current_time, NoEvent, 0, d.emitted, d.reqs,
                      Coord(0, 0), Coord(0, 0), FALSE)

(***************************************************************************)
(* kb_handle_keymap, for a descriptor whose text is text.  fails names the *)
(* library call that fails in this call: "mmap" (line 540), "compile"      *)
(* (xkb_keymap_new_from_string or xkb_state_new, lines 561-576) or "none". *)
(***************************************************************************)
KeymapEv(text) == Ev("KEYMAP", text, 0, NoAxis, NoAxis, 0, 0)

\* The comparison without the strcmp of line 546.
same_keymap_never(old, text) == FALSE

\* Lines 545-546: a keymap is held and strcmp finds the new text equal.
same_keymap(old, text) == old # 0 /\ old = text

kb_handle_keymap(text, fails) ==
  /\ Running
  /\ pc = "wayland"
  /\ IF fails = "mmap"
       THEN /\ pstate' = "exited"
            /\ UNCHANGED kbVars
            /\ last_op' = Op("keymap", 0, KeymapEv(text), 0, <<>>, <<>>,
                             Coord(0, 0), Coord(0, 0), FALSE)
       ELSE IF same_keymap(old_kb_map_shm, text)
       THEN /\ UNCHANGED <<pstate, kbVars>>
            /\ last_op' = Op("keymap", 0, KeymapEv(text), 0, <<>>, <<>>,
                             Coord(0, 0), Coord(0, 0), FALSE)
       ELSE /\ old_kb_map_shm' = text
            /\ IF fails = "compile"
                 THEN /\ pstate' = "exited"
                      /\ UNCHANGED <<xkb_state, virt_kb_keymap_set>>
                 ELSE /\ UNCHANGED pstate
                      /\ xkb_state' = {}
                      /\ virt_kb_keymap_set' = TRUE
            /\ last_op' = Op("keymap", 0, KeymapEv(text), 0, <<>>,
                             <<Req("virt_kb", "keymap", NoTime, text, 0, 0, 0, 0)>>,
                             Coord(0, 0), Coord(0, 0), FALSE)
  /\ UNCHANGED <<detached_buffers, shm, li_fds>>
  /\ UNCHANGED <<clock, pc, schedVars, cursorVars, dispVars, next_id, released>>

(***************************************************************************)
(* recalc_global_space.  screens is screen_list, the initialized           *)
(* geometries in slot order.  The result says whether the process exits,   *)
(* and whether and to what the global space is set.                        *)
(***************************************************************************)
screen_list(geom) ==
  LET S == {i \in Slots : geom[i].alloc /\ geom[i].init_done}
      RECURSIVE from(_)
      from(i) == IF i = MAX_DRAWABLE_LAYERS THEN <<>>
                 ELSE IF i \in S THEN <<geom[i]>> \o from(i + 1)
                 ELSE from(i + 1)
  IN from(0)

\* The test of lines 220-223.
Touching(conn_screen, cur_screen) ==
  \/ conn_screen.x = cur_screen.x + cur_screen.width
  \/ conn_screen.x + conn_screen.width = cur_screen.x
  \/ conn_screen.y = cur_screen.y + cur_screen.height
  \/ conn_screen.y + conn_screen.height = cur_screen.y

\* The loops of lines 207-229: conn is conn_screen_list as indices into
\* screens, (i, j) the position of the two outer loops.
RECURSIVE conn_screen_list(_, _, _, _)
conn_screen_list(screens, conn, i, j) ==
  IF i > Len(conn) THEN conn
  ELSE IF j > Len(screens) THEN conn_screen_list(screens, conn, i + 1, 1)
  ELSE IF (\E k \in 1 .. Len(conn) : conn[k] = j)
    THEN conn_screen_list(screens, conn, i, j + 1)
  ELSE IF Touching(screens[conn[i]], screens[j])
    THEN conn_screen_list(screens, Append(conn, j), i, j + 1)
  ELSE conn_screen_list(screens, conn, i, j + 1)

SeqMin(f, n, init) ==
  LET RECURSIVE go(_, _)
      go(k, acc) == IF k > n THEN acc ELSE go(k + 1, IF f[k] < acc THEN f[k] ELSE acc)
  IN go(1, init)

SeqMax(f, n, init) ==
  LET RECURSIVE go(_, _)
      go(k, acc) == IF k > n THEN acc ELSE go(k + 1, IF f[k] > acc THEN f[k] ELSE acc)
  IN go(1, init)

recalc_global_space(geom, allow_gaps, width, height) ==
  LET screens == screen_list(geom)
      n == Len(screens)
      ul_corner_x == SeqMin([k \in 1 .. n |-> screens[k].x], n, Uint32(0 - 1))
      ul_corner_y == SeqMin([k \in 1 .. n |-> screens[k].y], n, Uint32(0 - 1))
      br_corner_x == SeqMax([k \in 1 .. n |-> Uint32(screens[k].x + screens[k].width)], n, 0)
      br_corner_y == SeqMax([k \in 1 .. n |-> Uint32(screens[k].y + screens[k].height)], n, 0)
      same == [exit |-> FALSE, width |-> width, height |-> height]
  IN IF ul_corner_x > br_corner_x \/ ul_corner_y > br_corner_y THEN same
     ELSE IF Len(conn_screen_list(screens, <<1>>, 1, 1)) # n
       THEN IF allow_gaps THEN same ELSE [same EXCEPT !.exit = TRUE]
     ELSE [exit |-> FALSE, width |-> br_corner_x, height |-> br_corner_y]

(***************************************************************************)
(* The registry and output listeners.                                      *)
(***************************************************************************)
FreeSlots == {i \in Slots : ~layer[i].alloc}

FirstOf(S) == CHOOSE i \in S : \A o \in S : i <= o

GlobalEv(interface, name) == Ev(interface, name, 0, NoAxis, NoAxis, 0, 0)

\* zxdg_output_manager_v1_get_xdg_output for the wl_output of slot i.
get_xdg_output(i) == Req("xdg_output_manager", "get_xdg_output", NoTime, i, 0, 0, 0, 0)

\* registry_handle_global for a wl_output global called name (lines 406-450).
registry_handle_global_output(name) ==
  /\ Running
  /\ pc = "wayland"
  /\ \A i \in Slots : output_name[i] # name
  /\ IF FreeSlots = {}
       THEN /\ pstate' = "exited"
            /\ UNCHANGED dispVars
            /\ last_op' = Op("global", 0, GlobalEv("wl_output", name), 0, <<>>, <<>>,
                             Coord(0, 0), Coord(0, 0), FALSE)
       ELSE LET i == FirstOf(FreeSlots)
            IN /\ pstate' = pstate
               /\ output' = [output EXCEPT ![i] = name]
               /\ output_name' = [output_name EXCEPT ![i] = name]
               /\ layer' = [layer EXCEPT ![i] = NewLayer]
               /\ xdg_output' = IF xdg_output_manager
                                  THEN [xdg_output EXCEPT ![i] = name]
                                  ELSE xdg_output
               /\ output_geometry' = IF xdg_output_manager
                                       THEN [output_geometry EXCEPT ![i] = NewGeometry]
                                       ELSE output_geometry
               /\ UNCHANGED <<xdg_output_manager, global_space_width, global_space_height>>
               /\ last_op' = Op("global", 0, GlobalEv("wl_output", name), 0, <<>>,
                                IF xdg_output_manager THEN <<get_xdg_output(i)>> ELSE <<>>,
                                Coord(0, 0), Coord(0, 0), FALSE)
  /\ UNCHANGED <<detached_buffers, shm, li_fds>>
  /\ UNCHANGED <<clock, pc, schedVars, cursorVars, kbVars, next_id, released>>

\* The get_xdg_output requests of the loop of lines 454-467, from slot i on.
RECURSIVE late_xdg_outputs(_)
late_xdg_outputs(i) ==
  IF i = MAX_DRAWABLE_LAYERS THEN <<>>
  ELSE (IF output[i] # 0 /\ xdg_output[i] = 0 THEN <<get_xdg_output(i)>> ELSE <<>>)
       \o late_xdg_outputs(i + 1)

\* registry_handle_global for the manager without the loop of lines 454-467.
registry_handle_global_xdg_output_manager_bind_only ==
  /\ Running
  /\ pc = "wayland"
  /\ ~xdg_output_manager
  /\ xdg_output_manager' = TRUE
  /\ last_op' = Op("global", 0, GlobalEv("zxdg_output_manager_v1", 0), 0, <<>>, <<>>,
                   Coord(0, 0), Coord(0, 0), FALSE)
  /\ UNCHANGED <<layer, output_name, output, xdg_output, output_geometry,
                 global_space_width, global_space_height>>
  /\ UNCHANGED <<detached_buffers, shm, li_fds>>
  /\ UNCHANGED <<clock, pc, pstate, schedVars, cursorVars, kbVars, next_id, released>>

\* registry_handle_global for the zxdg_output_manager_v1 global (451-468).
registry_handle_global_xdg_output_manager ==
  /\ Running
  /\ pc = "wayland"
  /\ ~xdg_output_manager
  /\ xdg_output_manager' = TRUE
  /\ xdg_output' = [i \in Slots |->
                     IF output[i] # 0 /\ xdg_output[i] = 0 THEN output[i] ELSE xdg_output[i]]
  /\ output_geometry' = [i \in Slots |->
                          IF output[i] # 0 /\ xdg_output[i] = 0
                            THEN NewGeometry ELSE output_geometry[i]]
  /\ last_op' = Op("global", 0, GlobalEv("zxdg_output_manager_v1", 0), 0, <<>>,
                   late_xdg_outputs(0), Coord(0, 0), Coord(0, 0), FALSE)
  /\ UNCHANGED <<layer, output_name, output, global_space_width, global_space_height>>
  /\ UNCHANGED <<detached_buffers, shm, li_fds>>
  /\ UNCHANGED <<clock, pc, pstate, schedVars, cursorVars, kbVars, next_id, released>>

RemoveEv(name) == Ev("global_remove", name, 0, NoAxis, NoAxis, 0, 0)

\* registry_handle_global_remove without the free of the layer (508-509).
registry_handle_global_remove_layer_kept(name) ==
  /\ Running
  /\ pc = "wayland"
  /\ LET found == {i \in Slots : layer[i].alloc /\ output_name[i] = name}
     IN IF found = {}
          THEN /\ UNCHANGED <<pstate, dispVars, detached_buffers>>
               /\ last_op' = [PlainOp("remove_unknown", 0) EXCEPT !.ev = RemoveEv(name)]
          ELSE LET i == FirstOf(found)
                   geom == [output_geometry EXCEPT ![i] = NullGeometry]
                   g == recalc_global_space(geom, TRUE, global_space_width,
                                            global_space_height)
               IN IF xdg_output[i] = 0
                    THEN /\ pstate' = "crashed"
                         /\ UNCHANGED <<dispVars, detached_buffers>>
                         /\ last_op' = NoOp
                    ELSE /\ pstate' = IF g.exit THEN "exited" ELSE pstate
                         /\ output' = [output EXCEPT ![i] = 0]
                         /\ output_name' = [output_name EXCEPT ![i] = 0]
                         /\ xdg_output' = [xdg_output EXCEPT ![i] = 0]
                         /\ output_geometry' = geom
                         /\ global_space_width' = g.width
                         /\ global_space_height' = g.height
                         /\ UNCHANGED <<layer, xdg_output_manager, detached_buffers>>
                         /\ last_op' = [PlainOp("remove", 0) EXCEPT !.ev = RemoveEv(name)]
  /\ UNCHANGED <<shm, li_fds, clock, pc, schedVars, cursorVars, kbVars, next_id, released>>

\* registry_handle_global_remove (486-515).  zxdg_output_v1_destroy of a
\* NULL xdg_output[i] dereferences it.  The call is recorded as "remove"
\* when it finds the output and as "remove_unknown" when it finds none.
registry_handle_global_remove(name) ==
  /\ Running
  /\ pc = "wayland"
  /\ LET found == {i \in Slots : layer[i].alloc /\ output_name[i] = name}
     IN IF found = {}
          THEN /\ UNCHANGED <<pstate, dispVars, detached_buffers>>
               /\ last_op' = [PlainOp("remove_unknown", 0) EXCEPT !.ev = RemoveEv(name)]
          ELSE LET i == FirstOf(found)
                   geom == [output_geometry EXCEPT ![i] = NullGeometry]
                   g == recalc_global_space(geom, TRUE, global_space_width,
                                            global_space_height)
               IN IF xdg_output[i] = 0
                    THEN /\ pstate' = "crashed"
                         /\ UNCHANGED <<dispVars, detached_buffers>>
                         /\ last_op' = NoOp
                    ELSE /\ pstate' = IF g.exit THEN "exited" ELSE pstate
                         /\ output' = [output EXCEPT ![i] = 0]
                         /\ output_name' = [output_name EXCEPT ![i] = 0]
                         /\ xdg_output' = [xdg_output EXCEPT ![i] = 0]
                         /\ output_geometry' = geom
                         /\ layer' = [layer EXCEPT ![i] = NullLayer]
                         /\ detached_buffers' = detached_buffers \cup ({layer[i].buffer} \ {0})
                         /\ global_space_width' = g.width
                         /\ global_space_height' = g.height
                         /\ UNCHANGED xdg_output_manager
                         /\ last_op' = [PlainOp("remove", 0) EXCEPT !.ev = RemoveEv(name)]
  /\ UNCHANGED <<shm, li_fds, clock, pc, schedVars, cursorVars, kbVars, next_id, released>>

\* xdg_output_handle_logical_position (619-629) on the handle of slot i.
xdg_output_handle_logical_position(i, x, y) ==
  /\ Running
  /\ pc = "wayland"
  /\ xdg_output[i] # 0
  /\ output_geometry' = [output_geometry EXCEPT ![i].x = x, ![i].y = y]
  /\ last_op' = NoOp
  /\ UNCHANGED <<layer, output_name, output, xdg_output, xdg_output_manager,
                 global_space_width, global_space_height>>
  /\ UNCHANGED <<detached_buffers, shm, li_fds>>
  /\ UNCHANGED <<clock, pc, pstate, schedVars, cursorVars, kbVars, next_id, released>>

\* xdg_output_handle_logical_size (631-641) on the handle of slot i.
xdg_output_handle_logical_size(i, width, height) ==
  /\ Running
  /\ pc = "wayland"
  /\ xdg_output[i] # 0
  /\ output_geometry' = [output_geometry EXCEPT ![i].width = width, ![i].height = height]
  /\ last_op' = NoOp
  /\ UNCHANGED <<layer, output_name, output, xdg_output, xdg_output_manager,
                 global_space_width, global_space_height>>
  /\ UNCHANGED <<detached_buffers, shm, li_fds>>
  /\ UNCHANGED <<clock, pc, pstate, schedVars, cursorVars, kbVars, next_id, released>>

DoneEv(i) == Ev("DONE", i, 0, NoAxis, NoAxis, 0, 0)

\* The test of lines 659-661.
all_zero(geometry) ==
  geometry.x = 0 /\ geometry.y = 0 /\ geometry.width = 0 /\ geometry.height = 0

\* wl_output_info_done without the test of lines 659-661.
wl_output_info_done_unchecked(i) ==
  /\ Running
  /\ pc = "wayland"
  /\ output[i] # 0
  /\ output_geometry[i].alloc
  /\ LET geom == [output_geometry EXCEPT ![i].init_done = TRUE]
         g == recalc_global_space(geom, FALSE, global_space_width, global_space_height)
     IN /\ output_geometry' = geom
        /\ pstate' = IF g.exit THEN "exited" ELSE pstate
        /\ global_space_width' = g.width
        /\ global_space_height' = g.height
        /\ last_op' = Op("done", 0, DoneEv(i), 0, <<>>, <<>>, Coord(0, 0), Coord(0, 0),
                         FALSE)
  /\ UNCHANGED <<layer, output_name, output, xdg_output, xdg_output_manager>>
  /\ UNCHANGED <<detached_buffers, shm, li_fds>>
  /\ UNCHANGED <<clock, pc, schedVars, cursorVars, kbVars, next_id, released>>

\* wl_output_info_done (654-667) on the wl_output of slot i; the listener is
\* added together with the geometry record (lines 437-438, 463-464).  The
\* call is recorded as "done" when it reaches recalc_global_space, and as
\* "done_zero" when it returns at line 661.
wl_output_info_done(i) ==
  /\ Running
  /\ pc = "wayland"
  /\ output[i] # 0
  /\ output_geometry[i].alloc
  /\ LET geometry == output_geometry[i]
         geom == [output_geometry EXCEPT ![i].init_done = TRUE]
         g == recalc_global_space(geom, FALSE, global_space_width, global_space_height)
     IN IF all_zero(geometry)
          THEN /\ UNCHANGED <<pstate, output_geometry, global_space_width,
                              global_space_height>>
               /\ last_op' = Op("done_zero", 0, DoneEv(i), 0, <<>>, <<>>, Coord(0, 0),
                                Coord(0, 0), FALSE)
          ELSE /\ output_geometry' = geom
               /\ pstate' = IF g.exit THEN "exited" ELSE pstate
               /\ global_space_width' = g.width
               /\ global_space_height' = g.height
               /\ last_op' = Op("done", 0, DoneEv(i), 0, <<>>, <<>>, Coord(0, 0),
                                Coord(0, 0), FALSE)
  /\ UNCHANGED <<layer, output_name, output, xdg_output, xdg_output_manager>>
  /\ UNCHANGED <<detached_buffers, shm, li_fds>>
  /\ UNCHANGED <<clock, pc, schedVars, cursorVars, kbVars, next_id, released>>

(***************************************************************************)
(* li_open_restricted and li_close_restricted, which libinput calls for    *)
(* the devices of the seat, at startup and from libinput_dispatch.         *)
(***************************************************************************)
\* The number of input devices the model opens.
MaxDevices == 2

OpenEv(fd, grab) == Ev("OPEN_RESTRICTED", fd, grab, NoAxis, NoAxis, 0, 0)

\* open: the lowest descriptor not in use, or -1.
open(open_ok) ==
  IF open_ok
    THEN CHOOSE fd \in 0 .. MaxDevices :
           /\ \A d \in li_fds : d.fd # fd
           /\ \A lower \in 0 .. (fd - 1) : \E d \in li_fds : d.fd = lower
    ELSE 0 - 1

\* ioctl(fd, EVIOCGRAB, &one): -1 on a descriptor that is not open (EBADF)
\* and when the device is grabbed by someone else, else 0.
ioctl_EVIOCGRAB(fd, grab_ok) == IF fd >= 0 /\ grab_ok THEN 0 ELSE 0 - 1

\* li_open_restricted not looking at what ioctl returned.
li_open_restricted_unchecked(open_ok, grab_ok) ==
  /\ Running
  /\ pc = "wayland"
  /\ Cardinality(li_fds) < MaxDevices
  /\ LET fd == open(open_ok)
         grab == ioctl_EVIOCGRAB(fd, grab_ok)
     IN /\ UNCHANGED pstate
        /\ li_fds' = IF fd < 0 THEN li_fds
                     ELSE li_fds \cup {[fd |-> fd, grabbed |-> grab = 0]}
        /\ last_op' = Op("open_restricted", 0, OpenEv(fd, grab), 0, <<>>, <<>>,
                         Coord(0, 0), Coord(0, 0), FALSE)
  /\ UNCHANGED <<detached_buffers, shm>>
  /\ UNCHANGED <<clock, pc, schedVars, cursorVars, dispVars, kbVars, next_id,
                 released>>

\* li_open_restricted (749-757).  A descriptor below 0 is returned as
\* -errno and libinput does not use it.
li_open_restricted(open_ok, grab_ok) ==
  /\ Running
  /\ pc = "wayland"
  /\ Cardinality(li_fds) < MaxDevices
  /\ LET fd == open(open_ok)
         grab == ioctl_EVIOCGRAB(fd, grab_ok)
     IN /\ IF grab < 0
             THEN /\ pstate' = "exited"
                  /\ UNCHANGED li_fds
             ELSE /\ UNCHANGED pstate
                  /\ li_fds' = IF fd < 0 THEN li_fds
                               ELSE li_fds \cup {[fd |-> fd, grabbed |-> grab = 0]}
        /\ last_op' = Op("open_restricted", 0, OpenEv(fd, grab), 0, <<>>, <<>>,
                         Coord(0, 0), Coord(0, 0), FALSE)
  /\ UNCHANGED <<detached_buffers, shm>>
  /\ UNCHANGED <<clock, pc, schedVars, cursorVars, dispVars, kbVars, next_id,
                 released>>

\* li_close_restricted (759-761) for a device that has gone.
li_close_restricted(fd) ==
  /\ Running
  /\ pc = "wayland"
  /\ \E d \in li_fds : d.fd = fd
  /\ li_fds' = {d \in li_fds : d.fd # fd}
  /\ last_op' = NoOp
  /\ UNCHANGED <<detached_buffers, shm>>
  /\ UNCHANGED <<clock, pc, pstate, schedVars, cursorVars, dispVars, kbVars,
                 next_id, released>>

(***************************************************************************)
(* draw_frame on the layer of slot i: the layer it leaves, and the damage  *)
(* requests it sends on the surface of the layer.                          *)
(***************************************************************************)
\* The half width of the square drawn around the cursor.
CURSOR_RADIUS == 1

\* damage_surface_enh passing x and y on as they are.
damage_surface_enh_unclamped(x, y, width, height) ==
  Req("surface", "damage_buffer", NoTime, x, y, width, height, 0)

\* damage_surface_enh (855-860): the wl_surface_damage_buffer request.
damage_surface_enh(x, y, width, height) ==
  Req("surface", "damage_buffer", NoTime,
      IF x < 0 THEN 0 ELSE x, IF y < 0 THEN 0 ELSE y, width, height, 0)

\* The number of wl_buffers of freed layers the model lets wait for their
\* release.
MaxDetached == 1

\* The wl_buffers that exist: those the layers hold and those of freed
\* layers that the compositor has not released yet.
live_buffers(lay) ==
  {lay[j].buffer : j \in {k \in Slots : lay[k].alloc}} \cup detached_buffers

\* wl_shm_pool_create_buffer (line 774) returns a new object, distinct from
\* every wl_buffer that exists.  Buffers are numbered from 1, the layer of
\* slot i taking the first number of i + 1, i + 1 + MAX_DRAWABLE_LAYERS, ...
\* that names none.
wl_shm_pool_create_buffer(lay, i) ==
  LET free == {i + 1 + k * MAX_DRAWABLE_LAYERS : k \in 0 .. (MaxDetached + 1)}
                \ live_buffers(lay)
  IN CHOOSE b \in free : \A c \in free : b <= c

\* draw_frame without the two early returns of lines 768-771.
draw_frame_no_skip(lay, geom, i, cx, cy) ==
  LET coord == abs_coord_to_screen_local_coord(geom, cx, cy)
      cursor_is_on_layer == (i = coord.output_idx)
  IN [lay[i] EXCEPT
        !.frame_pending = FALSE,
        !.buffer = wl_shm_pool_create_buffer(lay, i),
        !.last_drawn_cursor_x = IF cursor_is_on_layer THEN coord.x ELSE 0 - 1,
        !.last_drawn_cursor_y = IF cursor_is_on_layer THEN coord.y ELSE 0 - 1,
        !.frame_released = FALSE]

\* draw_frame clearing frame_pending before the two early returns.
draw_frame_pending_cleared_first(lay, geom, i, cx, cy) ==
  LET coord == abs_coord_to_screen_local_coord(geom, cx, cy)
      cursor_is_on_layer == (i = coord.output_idx)
  IN IF ~lay[i].frame_released \/ ~lay[i].layer_surface_configured
       THEN [lay[i] EXCEPT !.frame_pending = FALSE]
       ELSE [lay[i] EXCEPT
               !.frame_pending = FALSE,
               !.buffer = wl_shm_pool_create_buffer(lay, i),
               !.last_drawn_cursor_x = IF cursor_is_on_layer THEN coord.x ELSE 0 - 1,
               !.last_drawn_cursor_y = IF cursor_is_on_layer THEN coord.y ELSE 0 - 1,
               !.frame_released = FALSE]

draw_frame(lay, geom, i, cx, cy) ==
  LET coord == abs_coord_to_screen_local_coord(geom, cx, cy)
      cursor_is_on_layer == (i = coord.output_idx)
  IN IF ~lay[i].frame_released \/ ~lay[i].layer_surface_configured
       THEN lay[i]
       ELSE [lay[i] EXCEPT
               !.frame_pending = FALSE,
               !.buffer = wl_shm_pool_create_buffer(lay, i),
               !.last_drawn_cursor_x = IF cursor_is_on_layer THEN coord.x ELSE 0 - 1,
               !.last_drawn_cursor_y = IF cursor_is_on_layer THEN coord.y ELSE 0 - 1,
               !.frame_released = FALSE]

\* draw_frame_damage without the damage of the block that is blanked out.
draw_frame_damage_crosshair_only(lay, geom, i, cx, cy) ==
  LET coord == abs_coord_to_screen_local_coord(geom, cx, cy)
      cursor_is_on_layer == (i = coord.output_idx)
      l == lay[i]
  IN IF ~l.frame_released \/ ~l.layer_surface_configured
       THEN <<>>
       ELSE IF cursor_is_on_layer
              THEN <<damage_surface_enh(coord.x - CURSOR_RADIUS,
                                        coord.y - CURSOR_RADIUS,
                                        coord.x + CURSOR_RADIUS + 1,
                                        coord.y + CURSOR_RADIUS + 1)>>
              ELSE <<>>

\* Lines 792-809.
draw_frame_damage(lay, geom, i, cx, cy) ==
  LET coord == abs_coord_to_screen_local_coord(geom, cx, cy)
      cursor_is_on_layer == (i = coord.output_idx)
      l == lay[i]
  IN IF ~l.frame_released \/ ~l.layer_surface_configured
       THEN <<>>
       ELSE (IF l.last_drawn_cursor_x >= 0 /\ l.last_drawn_cursor_y >= 0
               THEN <<damage_surface_enh(l.last_drawn_cursor_x - CURSOR_RADIUS,
                                         l.last_drawn_cursor_y - CURSOR_RADIUS,
                                         l.last_drawn_cursor_x + CURSOR_RADIUS + 1,
                                         l.last_drawn_cursor_y + CURSOR_RADIUS + 1)>>
               ELSE <<>>)
            \o (IF cursor_is_on_layer
                  THEN <<damage_surface_enh(coord.x - CURSOR_RADIUS,
                                            coord.y - CURSOR_RADIUS,
                                            coord.x + CURSOR_RADIUS + 1,
                                            coord.y + CURSOR_RADIUS + 1)>>
                  ELSE <<>>)

\* draw_block without the clamps of end_x and end_y to the last column and
\* row.
draw_block_end_unclamped(x, y, layer_width, layer_height, rad, crosshair) ==
  LET start_x == IF x - rad < 0 THEN 0 ELSE x - rad
      start_y == IF y - rad < 0 THEN 0 ELSE y - rad
  IN {[x |-> work_x, y |-> work_y, index |-> work_y * layer_width + work_x,
       colour |-> IF crosshair /\ (work_x = x \/ work_y = y)
                    THEN "ffff0000" ELSE "00000000"] :
        work_x \in start_x .. (x + rad), work_y \in start_y .. (y + rad)}

\* draw_block (362-384): the stores into pixbuf, each with the pixel
\* (work_x, work_y) of the loops, the index written and the value stored.
draw_block(x, y, layer_width, layer_height, rad, crosshair) ==
  LET start_x == IF x - rad < 0 THEN 0 ELSE x - rad
      start_y == IF y - rad < 0 THEN 0 ELSE y - rad
      end_x == IF x + rad >= layer_width THEN layer_width - 1 ELSE x + rad
      end_y == IF y + rad >= layer_height THEN layer_height - 1 ELSE y + rad
  IN {[x |-> work_x, y |-> work_y, index |-> work_y * layer_width + work_x,
       colour |-> IF crosshair /\ (work_x = x \/ work_y = y)
                    THEN "ffff0000" ELSE "00000000"] :
        work_x \in start_x .. end_x, work_y \in start_y .. end_y}

\* Lines 792-809: the stores of the two calls of draw_block, each with the
\* slot of the layer whose pixbuf it goes to.
draw_frame_writes(lay, geom, i, cx, cy) ==
  LET coord == abs_coord_to_screen_local_coord(geom, cx, cy)
      cursor_is_on_layer == (i = coord.output_idx)
      l == lay[i]
      stores ==
        (IF l.last_drawn_cursor_x >= 0 /\ l.last_drawn_cursor_y >= 0
           THEN draw_block(l.last_drawn_cursor_x, l.last_drawn_cursor_y, l.width,
                           l.height, CURSOR_RADIUS, FALSE)
           ELSE {})
        \cup (IF cursor_is_on_layer
                THEN draw_block(coord.x, coord.y, l.width, l.height, CURSOR_RADIUS, TRUE)
                ELSE {})
  IN IF ~l.frame_released \/ ~l.layer_surface_configured
       THEN {}
       ELSE {[slot |-> i, x |-> w.x, y |-> w.y, index |-> w.index, colour |-> w.colour] :
               w \in stores}

\* The stores of the loop of lines 1291-1296.
draw_writes(lay, geom, cx, cy) ==
  UNION {draw_frame_writes(lay, geom, i, cx, cy) :
           i \in {j \in Slots : lay[j].alloc /\ lay[j].frame_pending}}

\* The requests of the loop of lines 1291-1296, from slot i on.
RECURSIVE draw_requests(_, _, _, _, _)
draw_requests(lay, geom, i, cx, cy) ==
  IF i = MAX_DRAWABLE_LAYERS THEN <<>>
  ELSE (IF lay[i].alloc /\ lay[i].frame_pending
          THEN draw_frame_damage(lay, geom, i, cx, cy)
          ELSE <<>>)
       \o draw_requests(lay, geom, i + 1, cx, cy)

ConfigureEv(i, width, height) ==
  Ev("CONFIGURE", i, 0, NoAxis, NoAxis, width, height)

\* layer_surface_configure from line 716 on, the size of the layer being
\* set: ok says whether create_shm_file and mmap succeed.
layer_surface_configure_rest(i, width, height, ok) ==
  LET sized == [layer EXCEPT ![i].width = width, ![i].height = height]
      lay == [sized EXCEPT ![i].layer_surface_configured = TRUE]
  IN IF ~ok
       THEN /\ pstate' = "exited"
            /\ layer' = sized
            /\ last_op' = Op("configure", 0, ConfigureEv(i, width, height), 0, <<>>,
                             <<>>, Coord(0, 0), Coord(0, 0), FALSE)
       ELSE /\ UNCHANGED pstate
            /\ layer' = [lay EXCEPT
                           ![i] = draw_frame(lay, output_geometry, i, cursor_x, cursor_y)]
            /\ last_op' = [Op("configure", 0, ConfigureEv(i, width, height), 0, <<>>,
                              draw_frame_damage(lay, output_geometry, i, cursor_x,
                                                cursor_y),
                              Coord(0, 0), Coord(0, 0), FALSE)
                              EXCEPT !.writes = draw_frame_writes(lay, output_geometry, i,
                                                                  cursor_x, cursor_y)]

\* layer_surface_configure (699-743) for the layer surface of slot i; ok
\* says whether create_shm_file and mmap succeed.
layer_surface_configure(i, width, height, ok) ==
  /\ Running
  /\ pc = "wayland"
  /\ layer[i].alloc
  /\ layer_surface_configure_rest(i, width, height, ok)
  /\ UNCHANGED <<output_name, output, xdg_output, output_geometry, xdg_output_manager,
                 global_space_width, global_space_height>>
  /\ UNCHANGED <<detached_buffers, shm, li_fds>>
  /\ UNCHANGED <<clock, pc, schedVars, cursorVars, kbVars, next_id, released>>

(***************************************************************************)
(* create_shm_file and randname, one read of the random source a step.     *)
(* While layer_surface_configure is inside create_shm_file, pc is "shm".   *)
(* Characters are their ASCII codes.                                       *)
(***************************************************************************)
\* The number of characters randname is asked for (line 94).
NameLen == 10

\* The number of names create_shm_file tries (100 at line 90).
ShmRetries == 2

\* "/kloak-XXXXXXXXXX" without its terminating NUL (line 93).
NameTemplate == <<47, 107, 108, 111, 97, 107, 45>> \o [k \in 1 .. NameLen |-> 88]

Bytes == 0 .. 255

NoShm == [name |-> <<>>, i |-> 0, randchar |-> 0, retries |-> 0, slot |-> 0]

\* Lines 75-76, on a byte or on what randchar held.
clear_high_bit(b) == IF b >= 128 THEN b - 128 ELSE b

\* The loop condition of line 77.
randname_rejects(randchar) == randchar >= (127 - (127 % 52))

\* Lines 79-84 with the offset of the first branch in both.
randname_letter_one_offset(randchar) == (randchar % 52) + 65

\* Lines 79-84.
randname_letter(randchar) ==
  LET r == randchar % 52
  IN IF r < 26 THEN r + 65 ELSE r + 71

\* What read can return for one byte: an error, no byte, the byte.
ReadReturnsByte == {0 - 1, 0, 1}

\* layer_surface_configure up to the first read of randname (699-716, 90-94,
\* 71-74).
layer_surface_configure_enter(i, width, height) ==
  /\ Running
  /\ pc = "wayland"
  /\ layer[i].alloc
  /\ pc' = "shm"
  /\ layer' = [layer EXCEPT ![i].width = width, ![i].height = height]
  /\ shm' = [name |-> NameTemplate, i |-> 0, randchar |-> 0, retries |-> ShmRetries,
             slot |-> i]
  /\ last_op' = NoOp
  /\ UNCHANGED <<output_name, output, xdg_output, output_geometry, xdg_output_manager,
                 global_space_width, global_space_height>>
  /\ UNCHANGED <<li_fds, clock, pstate, schedVars, cursorVars, kbVars, next_id, released>>
  /\ UNCHANGED detached_buffers

\* One pass of the do loop of lines 73-77 and, when it ends, lines 79-85:
\* read returns ret and, if it delivers, the byte.  After a read that fails
\* without read_random seeing it, randchar holds what it held before.
randname_read(ret, byte) ==
  /\ Running
  /\ pc = "shm"
  /\ shm.i < NameLen
  /\ IF read_random(ret, 1)
       THEN /\ pstate' = "exited"
            /\ UNCHANGED shm
       ELSE LET randchar == clear_high_bit(IF ret = 1 THEN byte ELSE shm.randchar)
                at == (Len(NameTemplate) + 1 - 11) + shm.i + 1
            IN /\ UNCHANGED pstate
               /\ shm' = IF randname_rejects(randchar)
                           THEN [shm EXCEPT !.randchar = randchar]
                           ELSE [shm EXCEPT !.name[at] = randname_letter(randchar),
                                            !.randchar = randname_letter(randchar),
                                            !.i = shm.i + 1]
  /\ last_op' = NoOp
  /\ UNCHANGED <<li_fds, clock, pc, schedVars, cursorVars, dispVars, kbVars, next_id,
                 released>>
  /\ UNCHANGED detached_buffers

\* Lines 95-101 and the rest of layer_surface_configure: shm_open is called
\* with the name; result is "ok", "EEXIST" or another error, and mmap_ok
\* says whether ftruncate and mmap succeed.
shm_open(result, mmap_ok) ==
  /\ Running
  /\ pc = "shm"
  /\ shm.i = NameLen
  /\ LET retries == shm.retries - 1
     IN IF result = "EEXIST" /\ retries > 0
          THEN /\ shm' = [shm EXCEPT !.name = NameTemplate, !.i = 0, !.randchar = 0,
                                     !.retries = retries]
               /\ last_op' = NoOp
               /\ UNCHANGED <<pc, pstate, layer>>
          ELSE /\ shm' = NoShm
               /\ pc' = "wayland"
               /\ layer_surface_configure_rest(shm.slot, layer[shm.slot].width,
                                               layer[shm.slot].height,
                                               result = "ok" /\ mmap_ok)
  /\ UNCHANGED <<output_name, output, xdg_output, output_geometry, xdg_output_manager,
                 global_space_width, global_space_height>>
  /\ UNCHANGED <<li_fds, clock, schedVars, cursorVars, kbVars, next_id, released>>
  /\ UNCHANGED detached_buffers

\* wl_buffer_release (606-617) for a wl_buffer: the first layer that holds
\* it, if any, has its frame released.
wl_buffer_release_of(buffer) ==
  LET holders == {i \in Slots : layer[i].alloc /\ layer[i].buffer = buffer}
  IN /\ layer' = IF holders = {} THEN layer
                 ELSE [layer EXCEPT ![FirstOf(holders)].frame_released = TRUE,
                                    ![FirstOf(holders)].buffer = 0]
     /\ detached_buffers' = detached_buffers \ {buffer}
     /\ last_op' = IF holders = {} THEN PlainOp("release_detached", 0) ELSE NoOp
     /\ UNCHANGED <<output_name, output, xdg_output, output_geometry,
                    xdg_output_manager, global_space_width, global_space_height>>
     /\ UNCHANGED <<shm, li_fds>>
     /\ UNCHANGED <<clock, pc, pstate, schedVars, cursorVars, kbVars, next_id,
                    released>>

\* The compositor releases the buffer of the layer of slot i.
wl_buffer_release(i) ==
  /\ Running
  /\ pc = "wayland"
  /\ layer[i].alloc
  /\ layer[i].buffer # 0
  /\ wl_buffer_release_of(layer[i].buffer)

\* The compositor releases a buffer whose layer has been freed.
wl_buffer_release_detached(buffer) ==
  /\ Running
  /\ pc = "wayland"
  /\ buffer \in detached_buffers
  /\ wl_buffer_release_of(buffer)

(***************************************************************************)
(* main: the loop of lines 1276-1332.  pc names the statement the loop is  *)
(* at: "wayland" (dispatching compositor events, 1277-1279 and 1320-1325), *)
(* "input" (reading libinput events, 1281-1287), "draw" (1291-1297) and    *)
(* "poll" (1299-1318).                                                     *)
(***************************************************************************)
\* No compositor event is pending any more.
MainDispatched ==
  /\ Running
  /\ pc = "wayland"
  /\ pc' = "input"
  /\ last_op' = NoOp
  /\ UNCHANGED <<detached_buffers, shm, li_fds>>
  /\ UNCHANGED <<clock, pstate, schedVars, cursorVars, dispVars, kbVars, next_id, released>>

\* The loop without the call of line 1289.
MainRelease_no_drain ==
  /\ Running
  /\ pc = "input"
  /\ pc' = "draw"
  /\ last_op' = NoOp
  /\ UNCHANGED <<detached_buffers, shm, li_fds>>
  /\ UNCHANGED <<clock, pstate, schedVars, cursorVars, dispVars, kbVars, next_id, released>>

\* libinput_next_event_type returns LIBINPUT_EVENT_NONE, the loop of lines
\* 1281-1287 ends and line 1289 drains the queue.
MainRelease ==
  /\ Running
  /\ pc = "input"
  /\ release_scheduled_libinput_events
  /\ pc' = "draw"
  /\ UNCHANGED <<detached_buffers, shm, li_fds>>
  /\ UNCHANGED <<clock, pstate, prev_release_time, next_mouse_move_time, cursorVars,
                 dispVars, virt_kb_keymap_set, old_kb_map_shm, next_id>>

MainDraw ==
  /\ Running
  /\ pc = "draw"
  /\ pc' = "poll"
  /\ layer' = [i \in Slots |->
                IF layer[i].alloc /\ layer[i].frame_pending
                  THEN draw_frame(layer, output_geometry, i, cursor_x, cursor_y)
                  ELSE layer[i]]
  /\ LET reqs == draw_requests(layer, output_geometry, 0, cursor_x, cursor_y)
     IN last_op' = IF reqs = <<>> THEN NoOp
                   ELSE [PlainOp("draw", 0) EXCEPT
                           !.reqs = reqs,
                           !.writes = draw_writes(layer, output_geometry, cursor_x,
                                                  cursor_y)]
  /\ UNCHANGED <<output_name, output, xdg_output, output_geometry, xdg_output_manager,
                 global_space_width, global_space_height>>
  /\ UNCHANGED <<detached_buffers, shm, li_fds>>
  /\ UNCHANGED <<clock, pstate, schedVars, cursorVars, kbVars, next_id, released>>

\* The keep-alive deadline drawn too late.
keep_alive_deadline_late(current_time) == {current_time + 2 * max_delay + 1}

\* Lines 1316-1317 (and 1200-1201): the deadlines random_between can return.
keep_alive_deadline(current_time) ==
  random_between(current_time, current_time + max_delay)

\* The keep-alive of lines 1310-1318, current_time being the clock value
\* line 1310 reads.
keep_alive(current_time) ==
  LET motion == Req("virt_pointer", "motion_absolute", Uint32(current_time),
                    Uint32(cursor_x), Uint32(cursor_y), global_space_width,
                    global_space_height, 0)
  IN IF current_time >= next_mouse_move_time
       THEN /\ next_mouse_move_time' \in keep_alive_deadline(current_time)
            /\ last_op' = [PlainOp("keepalive", current_time) EXCEPT
                             !.draws = 1, !.reqs = <<motion>>]
       ELSE /\ UNCHANGED next_mouse_move_time
            /\ last_op' = NoOp

\* poll returns, on readiness or after POLL_TIMEOUT_MS, and the keep-alive
\* of lines 1310-1318 runs.
MainPoll ==
  /\ Running
  /\ pc = "poll"
  /\ pc' = "wayland"
  /\ keep_alive(clock)
  /\ UNCHANGED <<detached_buffers, shm, li_fds>>
  /\ UNCHANGED <<clock, pstate, head, prev_release_time, cursorVars, dispVars, kbVars,
                 next_id, released>>

\* The last clock value of the timed loop: two keep-alive intervals after
\* MaxTime.
IdleHorizon == MaxTime + 2 * max_delay

\* poll returns after wait milliseconds, at most POLL_TIMEOUT_MS, and the
\* keep-alive runs; the other statements of the loop take no time.
MainPollIdle(wait) ==
  /\ Running
  /\ pc = "poll"
  /\ wait <= POLL_TIMEOUT_MS
  /\ clock + wait <= IdleHorizon
  /\ clock' = clock + wait
  /\ pc' = "wayland"
  /\ keep_alive(clock + wait)
  /\ UNCHANGED <<detached_buffers, shm, li_fds>>
  /\ UNCHANGED <<pstate, head, prev_release_time, cursorVars, dispVars, kbVars,
                 next_id, released>>

\* The monotonic clock advances by a millisecond.
Tick ==
  /\ Running
  /\ Elapsed < MaxTime
  /\ clock' = clock + 1
  /\ last_op' = NoOp
  /\ UNCHANGED <<detached_buffers, shm, li_fds>>
  /\ UNCHANGED <<pc, pstate, schedVars, cursorVars, dispVars, kbVars, next_id, released>>


(***************************************************************************)
(* Initial states.  The globals are zero-initialized (lines 40-54),        *)
(* applayer_random_init draws the first keep-alive deadline, and the loop  *)
(* starts by dispatching compositor events.                                *)
(***************************************************************************)
InitAt(current_time) ==
  /\ clock = current_time
  /\ pc = "wayland"
  /\ pstate = "running"
  /\ head = <<>>
  /\ prev_release_time = 0
  /\ next_mouse_move_time \in random_between(current_time, current_time + max_delay)
  /\ cursor_x = 0
  /\ cursor_y = 0
  /\ prev_cursor_x = 0
  /\ prev_cursor_y = 0
  /\ virt_kb_keymap_set = FALSE
  /\ xkb_state = {}
  /\ old_kb_map_shm = 0
  /\ li_fds = {}
  /\ shm = NoShm
  /\ detached_buffers = {}
  /\ next_id = 1
  /\ released = <<>>
  /\ last_op = PlainOp("init", 0)

\* The process started at boot.
InitCore == InitAt(0)

NoOutputs ==
  /\ layer = [i \in Slots |-> NullLayer]
  /\ output_name = [i \in Slots |-> 0]
  /\ output = [i \in Slots |-> 0]
  /\ xdg_output = [i \in Slots |-> 0]
  /\ output_geometry = [i \in Slots |-> NullGeometry]
  /\ xdg_output_manager = FALSE
  /\ global_space_width = 0
  /\ global_space_height = 0

\* One output, of registry name 1, announced with logical geometry
\* (0, 0, width, height) and done, its overlay not yet configured.
OneOutput(width, height) ==
  /\ layer = [i \in Slots |-> IF i = 0 THEN NewLayer ELSE NullLayer]
  /\ output_name = [i \in Slots |-> IF i = 0 THEN 1 ELSE 0]
  /\ output = [i \in Slots |-> IF i = 0 THEN 1 ELSE 0]
  /\ xdg_output = [i \in Slots |-> IF i = 0 THEN 1 ELSE 0]
  /\ output_geometry =
       [i \in Slots |->
         IF i = 0
           THEN [alloc |-> TRUE, x |-> 0, y |-> 0, width |-> width, height |-> height,
                 init_done |-> TRUE]
           ELSE NullGeometry]
  /\ xdg_output_manager = TRUE
  /\ global_space_width = width
  /\ global_space_height = height

Init == InitCore /\ NoOutputs

(***************************************************************************)
(* SpecSched: the delay scheduler and the main loop on one 2 x 1 output.   *)
(***************************************************************************)
SchedEvents ==
  {KeyEv(42, 1), KeyEv(42, 0), ButtonEv(272, 1), MotionEv(1, 0), MotionAbsEv(0, 0)}

InitSched == InitCore /\ OneOutput(2, 1)

NextSched ==
  \/ \E ev \in SchedEvents : schedule_libinput_event(ev)
  \/ kb_handle_keymap(1, "none")
  \/ MainDispatched
  \/ MainRelease
  \/ MainDraw
  \/ MainPoll
  \/ Tick

SpecSched == InitSched /\ [][NextSched]_vars

(***************************************************************************)
(* SpecCursor: outputs come, are placed and sized, and go, while pointer   *)
(* motions arrive; the clock stands still.  Positions and sizes are those  *)
(* of a few layouts of 1 x 1 and 2 x 1 outputs.                            *)
(***************************************************************************)
OutputNames == {1, 2}

LogicalPositions == {<<2, 0>>, <<1, 2>>}

LogicalSizes == {<<1, 1>>, <<2, 1>>}

CursorEvents ==
  {MotionEv(2, 0), MotionEv(0, 2), MotionEv(1, 1), MotionAbsEv(0, 0)}

\* The first keep-alive is due after the stretch of time the model covers.
InitCursor == Init /\ next_mouse_move_time = max_delay

NextCursor ==
  \/ \E name \in OutputNames : registry_handle_global_output(name)
  \/ registry_handle_global_xdg_output_manager
  \/ \E name \in OutputNames : registry_handle_global_remove(name)
  \/ \E i \in Slots, xy \in LogicalPositions :
       xdg_output_handle_logical_position(i, xy[1], xy[2])
  \/ \E i \in Slots, wh \in LogicalSizes :
       xdg_output_handle_logical_size(i, wh[1], wh[2])
  \/ \E i \in Slots : wl_output_info_done(i)
  \/ \E ev \in CursorEvents : schedule_libinput_event(ev)
  \/ MainDispatched
  \/ MainRelease
  \/ MainDraw
  \/ MainPoll

SpecCursor == InitCursor /\ [][NextCursor]_vars

(***************************************************************************)
(* SpecWalk: pointer motions on two outputs side by side, A at (0, 0) of   *)
(* 7 x 11 and B at (7, 0) of 2 x 10, both announced and done.              *)
(***************************************************************************)
WalkGeometry ==
  [i \in Slots |->
    IF i = 0 THEN [alloc |-> TRUE, x |-> 0, y |-> 0, width |-> 7, height |-> 11,
                   init_done |-> TRUE]
    ELSE IF i = 1 THEN [alloc |-> TRUE, x |-> 7, y |-> 0, width |-> 2, height |-> 10,
                        init_done |-> TRUE]
    ELSE NullGeometry]

InitWalk ==
  /\ InitCore
  /\ layer = [i \in Slots |-> IF i <= 1 THEN NewLayer ELSE NullLayer]
  /\ output_name = [i \in Slots |-> IF i <= 1 THEN i + 1 ELSE 0]
  /\ output = [i \in Slots |-> IF i <= 1 THEN i + 1 ELSE 0]
  /\ xdg_output = [i \in Slots |-> IF i <= 1 THEN i + 1 ELSE 0]
  /\ output_geometry = WalkGeometry
  /\ xdg_output_manager = TRUE
  /\ global_space_width =
       recalc_global_space(WalkGeometry, FALSE, 0, 0).width
  /\ global_space_height =
       recalc_global_space(WalkGeometry, FALSE, 0, 0).height

WalkEvents ==
  {MotionEv(7, 9), MotionEv(0 - 7, 0 - 9), MotionEv(2, 1), MotionEv(0 - 1, 0),
   MotionEv(0, 1), MotionAbsEv(0, 0), MotionAbsEv(3, 2)}

NextWalk ==
  \/ \E ev \in WalkEvents : schedule_libinput_event(ev)
  \/ MainDispatched
  \/ MainRelease
  \/ MainDraw
  \/ MainPoll

SpecWalk == InitWalk /\ [][NextWalk]_vars

(***************************************************************************)
(* SpecLayouts: pointer motions on every layout of two outputs of at most  *)
(* 2 x 2 pixels, the first at the origin and the second anywhere in the    *)
(* 3 x 3 pixels next to it: side by side, apart, overlapping or touching   *)
(* at a corner only, as the compositor's logical_position and logical_size *)
(* events leave them.  The global space is the 4 x 3 of the widest layout  *)
(* and the cursor starts on any of its pixels, on an output or not.        *)
(***************************************************************************)
LayoutGeometries ==
  {[i \in Slots |->
     IF i = 0 THEN [alloc |-> TRUE, x |-> 0, y |-> 0, width |-> wh0[1],
                    height |-> wh0[2], init_done |-> TRUE]
     ELSE IF i = 1 THEN [alloc |-> TRUE, x |-> xy1[1], y |-> xy1[2], width |-> wh1[1],
                         height |-> wh1[2], init_done |-> TRUE]
     ELSE NullGeometry] :
     wh0 \in (1 .. 2) \X (1 .. 2), xy1 \in (0 .. 2) \X (0 .. 1), wh1 \in (1 .. 2) \X (1 .. 2)}

\* The state InitAt(0) describes, with the cursor where earlier motions left
\* it.
InitLayouts ==
  /\ clock = 0
  /\ pc = "wayland"
  /\ pstate = "running"
  /\ head = <<>>
  /\ prev_release_time = 0
  /\ next_mouse_move_time = max_delay
  /\ cursor_x \in 0 .. 3
  /\ cursor_y \in 0 .. 2
  /\ prev_cursor_x = cursor_x
  /\ prev_cursor_y = cursor_y
  /\ virt_kb_keymap_set = FALSE
  /\ xkb_state = {}
  /\ old_kb_map_shm = 0
  /\ li_fds = {}
  /\ shm = NoShm
  /\ detached_buffers = {}
  /\ next_id = 1
  /\ released = <<>>
  /\ last_op = PlainOp("init", 0)
  /\ layer = [i \in Slots |-> IF i <= 1 THEN NewLayer ELSE NullLayer]
  /\ output_name = [i \in Slots |-> IF i <= 1 THEN i + 1 ELSE 0]
  /\ output = [i \in Slots |-> IF i <= 1 THEN i + 1 ELSE 0]
  /\ xdg_output = [i \in Slots |-> IF i <= 1 THEN i + 1 ELSE 0]
  /\ output_geometry \in LayoutGeometries
  /\ xdg_output_manager = TRUE
  /\ global_space_width = 4
  /\ global_space_height = 3

LayoutEvents == {MotionEv(dx, dy) : dx \in (0 - 3) .. 3, dy \in (0 - 2) .. 2}

NextLayouts ==
  \/ \E ev \in LayoutEvents : schedule_libinput_event(ev)
  \/ MainDispatched
  \/ MainRelease
  \/ MainDraw
  \/ MainPoll

SpecLayouts == InitLayouts /\ [][NextLayouts]_vars

(***************************************************************************)
(* SpecSchedLive: SpecSched for button and motion events, with the clock   *)
(* advancing and the loop iterating: poll has a finite timeout, so each    *)
(* statement of the loop is reached again and again.                       *)
(***************************************************************************)
LiveEvents == {ButtonEv(272, 1), MotionEv(1, 0)}

NextSchedLive ==
  \/ \E ev \in LiveEvents : schedule_libinput_event(ev)
  \/ MainDispatched
  \/ MainRelease
  \/ MainDraw
  \/ MainPoll
  \/ Tick

SpecSchedLive ==
  /\ InitSched
  /\ [][NextSchedLive]_vars
  /\ WF_vars(Tick)
  /\ WF_vars(MainDispatched)
  /\ WF_vars(MainRelease)
  /\ WF_vars(MainDraw)
  /\ WF_vars(MainPoll)

(***************************************************************************)
(* SpecKeymap: the compositor sends keymap descriptors of two texts, some  *)
(* of which cannot be mapped or compiled, while keys are typed.            *)
(***************************************************************************)
KeymapTexts == {1, 2}

KeymapFailures == {"none", "mmap", "compile"}

KeymapEvents == {KeyEv(42, 1), KeyEv(42, 0)}

NextKeymap ==
  \/ \E text \in KeymapTexts, fails \in KeymapFailures : kb_handle_keymap(text, fails)
  \/ \E ev \in KeymapEvents : schedule_libinput_event(ev)
  \/ MainDispatched
  \/ MainRelease
  \/ MainDraw
  \/ MainPoll
  \/ Tick

SpecKeymap == InitSched /\ [][NextKeymap]_vars

(***************************************************************************)
(* SpecPointer: SpecSched for button and scroll events: a wheel click that *)
(* stops, a finger scroll on both axes, a continuous scroll of the least   *)
(* value and a scroll event that carries no axis.                          *)
(***************************************************************************)
PointerEvents ==
  {ButtonEv(272, 1),
   ScrollEv("POINTER_SCROLL_WHEEL", 0, NoAxis),
   ScrollEv("POINTER_SCROLL_FINGER", 0 - 3, 0),
   ScrollEv("POINTER_SCROLL_CONTINUOUS", NoAxis, 1),
   ScrollEv("POINTER_SCROLL_WHEEL", NoAxis, NoAxis)}

NextPointer ==
  \/ \E ev \in PointerEvents : schedule_libinput_event(ev)
  \/ MainDispatched
  \/ MainRelease
  \/ MainDraw
  \/ MainPoll
  \/ Tick

SpecPointer == InitSched /\ [][NextPointer]_vars

(***************************************************************************)
(* SpecIdle: the loop with time passing in poll only, by at most           *)
(* POLL_TIMEOUT_MS a call, up to IdleHorizon.  The statements of the loop  *)
(* are reached again and again, and a poll that finds nothing to read      *)
(* returns after its timeout, so time advances.                            *)
(***************************************************************************)
IdleEvents == {ButtonEv(272, 1), MotionEv(1, 0)}

NextIdle ==
  \/ \E ev \in IdleEvents : schedule_libinput_event(ev)
  \/ MainDispatched
  \/ MainRelease
  \/ MainDraw
  \/ \E wait \in 0 .. POLL_TIMEOUT_MS : MainPollIdle(wait)

SpecIdle ==
  /\ InitSched
  /\ [][NextIdle]_vars
  /\ WF_vars(MainDispatched)
  /\ WF_vars(MainRelease)
  /\ WF_vars(MainDraw)
  /\ WF_vars(\E wait \in 0 .. POLL_TIMEOUT_MS : MainPollIdle(wait))
  /\ SF_vars(\E wait \in 1 .. POLL_TIMEOUT_MS : MainPollIdle(wait))

(***************************************************************************)
(* SpecUnplug: three outputs of 1 x 1 in a row, at x = 0, 1 and 2, all     *)
(* announced and done.  Outputs are unplugged, and the compositor closes   *)
(* the row again: it sends an output left of which room has come free its  *)
(* new position, and done, one output after the other.                     *)
(***************************************************************************)
UnplugNames == {1, 2, 3}

UnplugGeometry ==
  [i \in Slots |->
    IF i <= 2 THEN [alloc |-> TRUE, x |-> i, y |-> 0, width |-> 1, height |-> 1,
                    init_done |-> TRUE]
    ELSE NullGeometry]

InitUnplug ==
  /\ InitCore
  /\ layer = [i \in Slots |-> IF i <= 2 THEN NewLayer ELSE NullLayer]
  /\ output_name = [i \in Slots |-> IF i <= 2 THEN i + 1 ELSE 0]
  /\ output = [i \in Slots |-> IF i <= 2 THEN i + 1 ELSE 0]
  /\ xdg_output = [i \in Slots |-> IF i <= 2 THEN i + 1 ELSE 0]
  /\ output_geometry = UnplugGeometry
  /\ xdg_output_manager = TRUE
  /\ global_space_width = recalc_global_space(UnplugGeometry, FALSE, 0, 0).width
  /\ global_space_height = recalc_global_space(UnplugGeometry, FALSE, 0, 0).height

\* The place of output i in the closed row: the number of outputs left of it.
Squished(i) ==
  Cardinality({j \in Slots : output_geometry[j].alloc
                              /\ output_geometry[j].x < output_geometry[i].x})

\* The compositor moves output i to its place in the closed row.
Reposition(i) ==
  /\ output_geometry[i].alloc
  /\ Squished(i) # output_geometry[i].x
  /\ xdg_output_handle_logical_position(i, Squished(i), 0)

UnplugEvents == {MotionEv(1, 0), MotionEv(0 - 1, 0)}

NextUnplug ==
  \/ \E name \in UnplugNames : registry_handle_global_remove(name)
  \/ \E i \in Slots : Reposition(i)
  \/ \E i \in Slots : wl_output_info_done(i)
  \/ \E ev \in UnplugEvents : schedule_libinput_event(ev)
  \/ MainDispatched
  \/ MainRelease
  \/ MainDraw
  \/ MainPoll

SpecUnplug == InitUnplug /\ [][NextUnplug]_vars

(***************************************************************************)
(* SpecRandom: SpecSched for button and motion events with a random source *)
(* whose reads can fail.                                                   *)
(***************************************************************************)
RandomEvents == {ButtonEv(272, 1), MotionEv(1, 0)}

NextRandom ==
  \/ \E ev \in RandomEvents : schedule_libinput_event_reading(ev)
  \/ MainDispatched
  \/ MainRelease
  \/ MainDraw
  \/ MainPoll
  \/ Tick

SpecRandom == InitSched /\ [][NextRandom]_vars

(***************************************************************************)
(* SpecDevices: input devices are opened, at startup and by hot-plug, and  *)
(* closed, while button events arrive; opening and grabbing can fail.      *)
(***************************************************************************)
DeviceEvents == {ButtonEv(272, 1)}

NextDevices ==
  \/ \E open_ok \in BOOLEAN, grab_ok \in BOOLEAN : li_open_restricted(open_ok, grab_ok)
  \/ \E fd \in 0 .. MaxDevices : li_close_restricted(fd)
  \/ \E ev \in DeviceEvents : schedule_libinput_event(ev)
  \/ MainDispatched
  \/ MainRelease
  \/ MainDraw
  \/ MainPoll
  \/ Tick

SpecDevices == InitSched /\ [][NextDevices]_vars

(***************************************************************************)
(* SpecDraw: one output of 3 x 2 whose overlay is configured and drawn,    *)
(* while the pointer moves and the compositor releases the buffers.        *)
(***************************************************************************)
InitDraw == InitCore /\ OneOutput(3, 2)

ConfigureSizes == {<<3, 2>>}

DrawEvents == {MotionEv(1, 0), MotionEv(0 - 1, 0), MotionEv(0, 1)}

NextDraw ==
  \/ \E i \in Slots, wh \in ConfigureSizes, ok \in BOOLEAN :
       layer_surface_configure(i, wh[1], wh[2], ok)
  \/ \E i \in Slots : wl_buffer_release(i)
  \/ \E ev \in DrawEvents : schedule_libinput_event(ev)
  \/ MainDispatched
  \/ MainRelease
  \/ MainDraw
  \/ MainPoll

SpecDraw == InitDraw /\ [][NextDraw]_vars

(***************************************************************************)
(* SpecBlock: the overlay of one output of 3 x 2 is configured, and        *)
(* configured again, with every size from 0 x 0 up to 3 x 2, so that the   *)
(* buffer may be smaller than the output and the cursor may lie on, next   *)
(* to or beyond the last column and row of the buffer, and drawn while the *)
(* pointer moves over the output.                                          *)
(***************************************************************************)
BlockSizes == (0 .. 3) \X (0 .. 2)

BlockEvents ==
  {MotionEv(1, 0), MotionEv(0 - 1, 0), MotionEv(0, 1), MotionEv(0, 0 - 1)}

NextBlock ==
  \/ \E i \in Slots, wh \in BlockSizes : layer_surface_configure(i, wh[1], wh[2], TRUE)
  \/ \E i \in Slots : wl_buffer_release(i)
  \/ \E ev \in BlockEvents : schedule_libinput_event(ev)
  \/ MainDispatched
  \/ MainRelease
  \/ MainDraw
  \/ MainPoll

InitBlock == InitDraw /\ next_mouse_move_time = max_delay

SpecBlock == InitBlock /\ [][NextBlock]_vars

(***************************************************************************)
(* SpecShm: the overlay of one output of 3 x 2 is configured, its shared   *)
(* memory object being named from the bytes of ShmBytes: one that gives Z, *)
(* one with the high bit set that gives z, and two that randname rejects,  *)
(* one of them with the high bit set.                                      *)
(***************************************************************************)
ShmBytes == {25, 104, 179, 255}

ShmResults == {"ok", "EEXIST", "EACCES"}

NextShm ==
  \/ \E i \in Slots, wh \in ConfigureSizes : layer_surface_configure_enter(i, wh[1], wh[2])
  \/ \E ret \in ReadReturnsByte, byte \in ShmBytes : randname_read(ret, byte)
  \/ \E result \in ShmResults, mmap_ok \in BOOLEAN : shm_open(result, mmap_ok)
  \/ \E i \in Slots : wl_buffer_release(i)
  \/ MainDispatched
  \/ MainRelease
  \/ MainDraw
  \/ MainPoll

SpecShm == InitDraw /\ [][NextShm]_vars

(***************************************************************************)
(* SpecTyping: SpecSched for keys only: Shift pressed and released and the *)
(* letter key 30 pressed, the keymap arriving before, between or after.    *)
(***************************************************************************)
TypingEvents == {KeyEv(42, 1), KeyEv(42, 0), KeyEv(30, 1)}

NextTyping ==
  \/ \E ev \in TypingEvents : schedule_libinput_event(ev)
  \/ kb_handle_keymap(1, "none")
  \/ MainDispatched
  \/ MainRelease
  \/ MainDraw
  \/ MainPoll
  \/ Tick

SpecTyping == InitSched /\ [][NextTyping]_vars

(***************************************************************************)
(* SpecOverlay: two outputs of 1 x 1 are announced, placed at (0, 0) or    *)
(* (1, 0) and done, and their overlays are configured, drawn and released, *)
(* while the pointer moves; the clock stands still.                        *)
(***************************************************************************)
OverlayNames == {1, 2}

OverlayPositions == {<<0, 0>>, <<1, 0>>}

OverlaySizes == {<<1, 1>>}

OverlayEvents == {MotionEv(1, 0)}

NextOverlay ==
  \/ \E name \in OverlayNames : registry_handle_global_output(name)
  \/ registry_handle_global_xdg_output_manager
  \/ \E i \in Slots, xy \in OverlayPositions :
       xdg_output_handle_logical_position(i, xy[1], xy[2])
  \/ \E i \in Slots, wh \in OverlaySizes :
       xdg_output_handle_logical_size(i, wh[1], wh[2])
  \/ \E i \in Slots : wl_output_info_done(i)
  \/ \E i \in Slots, wh \in OverlaySizes : layer_surface_configure(i, wh[1], wh[2], TRUE)
  \/ \E i \in Slots : wl_buffer_release(i)
  \/ \E ev \in OverlayEvents : schedule_libinput_event(ev)
  \/ MainDispatched
  \/ MainRelease
  \/ MainDraw
  \/ MainPoll

SpecOverlay == InitCursor /\ [][NextOverlay]_vars

(***************************************************************************)
(* SpecHotplug: two outputs of 1 x 1 side by side, at (0, 0) and (1, 0),   *)
(* announced and done.  Their overlays are configured, drawn and released  *)
(* while the pointer moves; outputs are unplugged, also while the          *)
(* compositor holds the buffer of their overlay, which it releases later,  *)
(* and plugged in again, their geometry not yet announced.  The clock      *)
(* stands still.                                                           *)
(***************************************************************************)
HotplugGeometry ==
  [i \in Slots |->
    IF i <= 1 THEN [alloc |-> TRUE, x |-> i, y |-> 0, width |-> 1, height |-> 1,
                    init_done |-> TRUE]
    ELSE NullGeometry]

InitHotplug ==
  /\ InitCore
  /\ next_mouse_move_time = max_delay
  /\ layer = [i \in Slots |-> IF i <= 1 THEN NewLayer ELSE NullLayer]
  /\ output_name = [i \in Slots |-> IF i <= 1 THEN i + 1 ELSE 0]
  /\ output = [i \in Slots |-> IF i <= 1 THEN i + 1 ELSE 0]
  /\ xdg_output = [i \in Slots |-> IF i <= 1 THEN i + 1 ELSE 0]
  /\ output_geometry = HotplugGeometry
  /\ xdg_output_manager = TRUE
  /\ global_space_width = recalc_global_space(HotplugGeometry, FALSE, 0, 0).width
  /\ global_space_height = recalc_global_space(HotplugGeometry, FALSE, 0, 0).height

HotplugEvents == {MotionEv(1, 0), MotionEv(0 - 1, 0)}

NextHotplug ==
  \/ \E name \in OverlayNames :
       /\ \A i \in Slots : output_name[i] # name
       /\ registry_handle_global_output(name)
  \/ \E name \in OverlayNames :
       /\ Cardinality(detached_buffers) < MaxDetached
       /\ registry_handle_global_remove(name)
  \/ \E i \in Slots, wh \in OverlaySizes : layer_surface_configure(i, wh[1], wh[2], TRUE)
  \/ \E i \in Slots : wl_buffer_release(i)
  \/ \E buffer \in detached_buffers : wl_buffer_release_detached(buffer)
  \/ \E ev \in HotplugEvents : schedule_libinput_event(ev)
  \/ MainDispatched
  \/ MainRelease
  \/ MainDraw
  \/ MainPoll

SpecHotplug == InitHotplug /\ [][NextHotplug]_vars

(***************************************************************************)
(* SpecRearrange: the two outputs of SpecHotplug, whose overlays are       *)
(* configured, drawn and released while the pointer moves and while the    *)
(* compositor moves the outputs: it sends a logical position to either     *)
(* output and the done event that follows.  The clock stands still.        *)
(***************************************************************************)
RearrangePositions == {0, 1}

NextRearrange ==
  \/ \E i \in Slots, x \in RearrangePositions : xdg_output_handle_logical_position(i, x, 0)
  \/ \E i \in Slots : wl_output_info_done(i)
  \/ \E i \in Slots, wh \in OverlaySizes : layer_surface_configure(i, wh[1], wh[2], TRUE)
  \/ \E i \in Slots : wl_buffer_release(i)
  \/ \E ev \in HotplugEvents : schedule_libinput_event(ev)
  \/ MainDispatched
  \/ MainRelease
  \/ MainDraw
  \/ MainPoll

SpecRearrange == InitHotplug /\ [][NextRearrange]_vars

(***************************************************************************)
(* SpecRedraw: an output of 2 x 1 at (0, 0) and one of 1 x 1 at (2, 0),    *)
(* announced and done.  Their overlays are configured, drawn and released  *)
(* while the pointer moves; the loop iterates, and the compositor releases *)
(* every buffer it holds in the end.  The clock stands still.              *)
(***************************************************************************)
RedrawGeometry ==
  [i \in Slots |->
    IF i = 0 THEN [alloc |-> TRUE, x |-> 0, y |-> 0, width |-> 2, height |-> 1,
                   init_done |-> TRUE]
    ELSE IF i = 1 THEN [alloc |-> TRUE, x |-> 2, y |-> 0, width |-> 1, height |-> 1,
                        init_done |-> TRUE]
    ELSE NullGeometry]

InitRedraw ==
  /\ InitCore
  /\ next_mouse_move_time = max_delay
  /\ layer = [i \in Slots |-> IF i <= 1 THEN NewLayer ELSE NullLayer]
  /\ output_name = [i \in Slots |-> IF i <= 1 THEN i + 1 ELSE 0]
  /\ output = [i \in Slots |-> IF i <= 1 THEN i + 1 ELSE 0]
  /\ xdg_output = [i \in Slots |-> IF i <= 1 THEN i + 1 ELSE 0]
  /\ output_geometry = RedrawGeometry
  /\ xdg_output_manager = TRUE
  /\ global_space_width = recalc_global_space(RedrawGeometry, FALSE, 0, 0).width
  /\ global_space_height = recalc_global_space(RedrawGeometry, FALSE, 0, 0).height

RedrawEvents == {MotionEv(1, 0), MotionEv(0 - 1, 0), MotionEv(2, 0)}

NextRedraw ==
  \/ \E i \in Slots :
       layer_surface_configure(i, output_geometry[i].width, output_geometry[i].height,
                               TRUE)
  \/ \E i \in Slots : wl_buffer_release(i)
  \/ \E ev \in RedrawEvents : schedule_libinput_event(ev)
  \/ MainDispatched
  \/ MainRelease
  \/ MainDraw
  \/ MainPoll

SpecRedraw ==
  /\ InitRedraw
  /\ [][NextRedraw]_vars
  /\ WF_vars(MainDispatched)
  /\ WF_vars(MainRelease)
  /\ WF_vars(MainDraw)
  /\ WF_vars(MainPoll)
  /\ \A i \in Slots : SF_vars(wl_buffer_release(i))

(***************************************************************************)
(* SpecForeign: SpecSched for a key, a button, a device that is added and  *)
(* a touch, an event kind handle_libinput_event has no branch for.         *)
(***************************************************************************)
ForeignEvents ==
  {KeyEv(30, 1), ButtonEv(272, 1), PlainEv("DEVICE_ADDED"), PlainEv("TOUCH_DOWN")}

NextForeign ==
  \/ \E ev \in ForeignEvents : schedule_libinput_event(ev)
  \/ kb_handle_keymap(1, "none")
  \/ MainDispatched
  \/ MainRelease
  \/ MainDraw
  \/ MainPoll
  \/ Tick

SpecForeign == InitSched /\ [][NextForeign]_vars

(***************************************************************************)
(* SpecUptime: SpecSched for a key, a button and a scroll, the process     *)
(* started LateBoot milliseconds after boot, so that the low word of the   *)
(* clock wraps while packets are queued.                                   *)
(***************************************************************************)
UptimeEvents ==
  {KeyEv(30, 1), ButtonEv(272, 1), ScrollEv("POINTER_SCROLL_WHEEL", 512, NoAxis)}

InitUptime == InitAt(LateBoot) /\ OneOutput(2, 1)

NextUptime ==
  \/ \E ev \in UptimeEvents : schedule_libinput_event(ev)
  \/ kb_handle_keymap(1, "none")
  \/ MainDispatched
  \/ MainRelease
  \/ MainDraw
  \/ MainPoll
  \/ Tick

SpecUptime == InitUptime /\ [][NextUptime]_vars

(***************************************************************************)
(* SpecReplay: one fixed run of the environment, the random draws left     *)
(* open.  In the first loop iteration, at clock value 0, libinput delivers *)
(* the press of a key and then the press of a button; every poll times out *)
(* after POLL_TIMEOUT_MS; the second iteration, at clock value 1, starts   *)
(* with the compositor's keymap; nothing else arrives.  The runs differ    *)
(* only in what random_between returns.                                    *)
(***************************************************************************)
ReplayKey == KeyEv(30, 1)

ReplayButton == ButtonEv(272, 1)

NextReplay ==
  \/ /\ clock = 0
     /\ next_id = 1
     /\ schedule_libinput_event(ReplayKey)
  \/ /\ clock = 0
     /\ next_id = 2
     /\ schedule_libinput_event(ReplayButton)
  \/ /\ clock = POLL_TIMEOUT_MS
     /\ old_kb_map_shm = 0
     /\ kb_handle_keymap(1, "none")
  \/ /\ clock = POLL_TIMEOUT_MS => old_kb_map_shm # 0
     /\ MainDispatched
  \/ /\ clock = 0 => next_id = 3
     /\ MainRelease
  \/ MainDraw
  \/ MainPollIdle(POLL_TIMEOUT_MS)

SpecReplay == InitSched /\ [][NextReplay]_vars

(***************************************************************************)
(* The delay scheduler.                                                    *)
(***************************************************************************)
\* C1: the queue, read from head to tail, has non-decreasing release times,
\* none later than prev_release_time; and every admission of a packet gives
\* it, and prev_release_time, a release time at least the prev_release_time
\* the admission found.
C1_ReleaseTimesNonDecreasing ==
  /\ [](/\ \A i, j \in 1 .. Len(head) :
             i < j => head[i].sched_time <= head[j].sched_time
        /\ \A i \in 1 .. Len(head) : head[i].sched_time <= prev_release_time)
  /\ [][next_id' # next_id =>
          /\ head' = Append(head, head'[Len(head')])
          /\ head'[Len(head')].sched_time >= prev_release_time
          /\ prev_release_time' = head'[Len(head')].sched_time]_vars

\* Two packets are queued, the second admitted at a later clock value than
\* zero while the release time of the first was still ahead.
C1_Witness ==
  /\ Len(head) = 2
  /\ last_op.op = "schedule"
  /\ last_op.now > 0
  /\ last_op.now < head[1].sched_time
  /\ last_op.draws = 1

\* C2: a packet admitted at clock value now has now <= sched_time and
\* sched_time <= now + max_delay, whatever prev_release_time was and whatever
\* the random source returned, also when no random word was read.
C2_DelayBounded ==
  (last_op.op = "schedule" /\ last_op.ev.type \notin MotionTypes) =>
    /\ Len(head) > 0
    /\ last_op.now <= head[Len(head)].sched_time
    /\ head[Len(head)].sched_time <= last_op.now + max_delay

\* A packet admitted with lower_bound = max_delay: no random word is read and
\* the packet is due at now + max_delay.
C2_Witness ==
  /\ last_op.op = "schedule"
  /\ last_op.ev.type \notin MotionTypes
  /\ last_op.draws = 0
  /\ Len(head) = 2
  /\ head[Len(head)].sched_time = last_op.now + max_delay

\* C3: the packets handed to handle_libinput_event so far are the first
\* packets admitted, in the order of admission, each once; the queue holds
\* the others, in the order of admission.
C3_ReleasedIsPrefix ==
  /\ \A k \in 1 .. Len(released) : released[k] = k
  /\ \A k \in 1 .. Len(head) : head[k].id = Len(released) + k
  /\ Len(released) + Len(head) = next_id - 1

\* One drain has released two packets of equal release time.
C3_Witness ==
  /\ last_op.op = "release"
  /\ Len(last_op.emitted) = 2
  /\ last_op.emitted[1].sched_time = last_op.emitted[2].sched_time
  /\ released = <<1, 2>>

\* C4: a drain at clock value now hands over no packet due later than now,
\* leaves no packet due at or before now in the queue, and stamps every
\* request with a time that is not in the future.
C4_DrainExact ==
  last_op.op = "release" =>
    /\ \A k \in 1 .. Len(last_op.emitted) : last_op.emitted[k].sched_time <= last_op.now
    /\ \A k \in 1 .. Len(head) : head[k].sched_time > last_op.now
    /\ \A k \in 1 .. Len(last_op.reqs) :
         last_op.reqs[k].time # NoTime => last_op.reqs[k].time <= last_op.now

\* A drain has released a packet at the very millisecond it was due and kept
\* a packet due later.
C4_Witness ==
  /\ last_op.op = "release"
  /\ Len(last_op.emitted) = 1
  /\ last_op.emitted[1].sched_time = last_op.now
  /\ Len(head) = 1

\* C5: with the clock advancing and the loop iterating, every admitted
\* packet is eventually handed to handle_libinput_event and leaves the queue.
C5_EventuallyReleased ==
  \A id \in 1 .. MaxEvents :
    (next_id > id) ~>
      (/\ \E k \in 1 .. Len(released) : released[k] = id
       /\ \A k \in 1 .. Len(head) : head[k].id # id)

\* Every packet the bound allows has been admitted with a delay and released.
C5_Witness ==
  /\ Len(released) = MaxEvents
  /\ head = <<>>
  /\ last_op.op = "release"
  /\ last_op.now > 0
  /\ Len(last_op.emitted) > 0

\* C6: a call of schedule_libinput_event for a pointer motion, relative or
\* absolute, leaves the queue and prev_release_time as they were, admits no
\* packet, reads no random word, and moves the cursor in that call: the
\* previous position becomes the old position and the position becomes the
\* requested one when an output holds that pixel.
C6_MotionNotQueued ==
  [][(last_op'.op = "schedule" /\ last_op'.ev.type \in MotionTypes) =>
       /\ head' = head
       /\ prev_release_time' = prev_release_time
       /\ next_id' = next_id
       /\ last_op'.draws = 0
       /\ last_op'.reset \/ (prev_cursor_x' = cursor_x /\ prev_cursor_y' = cursor_y)
       /\ LET want == requested_position(last_op'.ev)
          IN (~last_op'.reset /\ OnScreen(output_geometry, want.x, want.y)) =>
               (cursor_x' = want.x /\ cursor_y' = want.y)]_vars

\* A relative motion has moved the cursor by a pixel while a packet waits in
\* the queue.
C6_Witness ==
  /\ last_op.op = "schedule"
  /\ last_op.ev.type = "POINTER_MOTION"
  /\ prev_cursor_x = 0
  /\ cursor_x = 1
  /\ Len(head) = 1

(***************************************************************************)
(* The virtual cursor.                                                     *)
(***************************************************************************)
\* C7: after a pointer motion handled while every announced output is
\* initialized with a size that is not empty, there is one, and the global
\* space is the one recalc_global_space derives from these outputs, the
\* cursor is on a pixel of an initialized output.
C7_CursorInOutput ==
  (/\ pstate = "running"
   /\ last_op.op = "schedule"
   /\ last_op.ev.type \in MotionTypes
   /\ \E i \in Slots : layer[i].alloc
   /\ \A i \in Slots :
        layer[i].alloc =>
          /\ output_geometry[i].alloc
          /\ output_geometry[i].init_done
          /\ output_geometry[i].width > 0
          /\ output_geometry[i].height > 0
   /\ recalc_global_space(output_geometry, FALSE, 0, 0) =
        [exit |-> FALSE, width |-> global_space_width, height |-> global_space_height]) =>
    OnScreen(output_geometry, cursor_x, cursor_y)

\* C8: a horizontal or vertical move that starts on an output and meets a
\* void on its way ends on the last pixel before the first void pixel.
C8_StopsBeforeVoid ==
  (last_op.op = "schedule" /\ last_op.ev.type \in MotionTypes) =>
    LET s == last_op.start
        w == last_op.want
        n == Max(Abs(w.x - s.x), Abs(w.y - s.y))
        sx == IF w.x > s.x THEN 1 ELSE IF w.x < s.x THEN 0 - 1 ELSE 0
        sy == IF w.y > s.y THEN 1 ELSE IF w.y < s.y THEN 0 - 1 ELSE 0
        P(k) == Coord(s.x + k * sx, s.y + k * sy)
    IN (s.x = w.x \/ s.y = w.y) =>
         \A k \in 1 .. n :
           (/\ \A j \in 0 .. (k - 1) : OnScreen(output_geometry, P(j).x, P(j).y)
            /\ ~OnScreen(output_geometry, P(k).x, P(k).y)) =>
             (pstate = "running" /\ cursor_x = P(k - 1).x /\ cursor_y = P(k - 1).y)

\* A move of two pixels to the right from (0, 0) towards an output at
\* (2, 0), across the void pixel (1, 0), has ended at (0, 0).
C8_Witness ==
  /\ last_op.op = "schedule"
  /\ last_op.ev.type = "POINTER_MOTION"
  /\ last_op.start = Coord(0, 0)
  /\ last_op.want = Coord(2, 0)
  /\ ~OnScreen(output_geometry, 1, 0)
  /\ OnScreen(output_geometry, 2, 0)
  /\ cursor_x = 0
  /\ cursor_y = 0

\* C9: when every pixel traverse_line yields from the previous position to
\* the requested end, and the end itself, is on an initialized output, the
\* cursor ends on the requested end.
C9_EndsAtRequestedEnd ==
  (pstate = "running" /\ last_op.op = "schedule" /\ last_op.ev.type \in MotionTypes) =>
    LET s == last_op.start
        w == last_op.want
        n == Max(Abs(w.x - s.x), Abs(w.y - s.y))
    IN (/\ \A i \in 0 .. n :
             OnScreen(output_geometry, traverse_line(s, w, i).x, traverse_line(s, w, i).y)
        /\ OnScreen(output_geometry, w.x, w.y)) =>
         (cursor_x = w.x /\ cursor_y = w.y)

\* C10: in the requests of a call, every key request on the virtual keyboard
\* directly follows a modifiers request on the virtual keyboard sent by the
\* same handle_libinput_event call.
C10_ModifiersBeforeKey ==
  \A k \in 1 .. Len(last_op.reqs) :
    (last_op.reqs[k].obj = "virt_kb" /\ last_op.reqs[k].req = "key") =>
      /\ k > 1
      /\ last_op.reqs[k - 1].obj = "virt_kb"
      /\ last_op.reqs[k - 1].req = "modifiers"
      /\ last_op.reqs[k - 1].call = last_op.reqs[k].call

\* One drain has released a button and then a key: the key request is the
\* fourth of the drain, after button, frame and modifiers.
C10_Witness ==
  /\ last_op.op = "release"
  /\ Len(last_op.reqs) = 4
  /\ last_op.reqs[2].req = "frame"
  /\ last_op.reqs[4].obj = "virt_kb"
  /\ last_op.reqs[4].req = "key"

(***************************************************************************)
(* The keymap.                                                             *)
(***************************************************************************)
\* C11: a call of kb_handle_keymap that returns sends the keymap request,
\* with the text received, when no keymap is held or the text differs from
\* the one held, and then holds that text and starts a new xkb state; it
\* sends nothing and changes nothing when the text equals the one held.  No
\* other step changes the keymap held, so the keymap held is the one
\* forwarded last.
C11_KeymapForwardedIffChanged ==
  [][/\ (last_op'.op = "keymap" /\ pstate' = "running") =>
          LET text == last_op'.ev.key
              forwarded ==
                last_op'.reqs = <<Req("virt_kb", "keymap", NoTime, text, 0, 0, 0, 0)>>
          IN /\ forwarded <=> (old_kb_map_shm = 0 \/ old_kb_map_shm # text)
             /\ forwarded =>
                  /\ old_kb_map_shm' = text
                  /\ xkb_state' = {}
                  /\ virt_kb_keymap_set'
             /\ ~forwarded =>
                  /\ last_op'.reqs = <<>>
                  /\ UNCHANGED kbVars
     /\ last_op'.op # "keymap" => old_kb_map_shm' = old_kb_map_shm]_vars

\* The keymap held has been delivered again while a key was down: nothing
\* was sent and the key is still down in the xkb state.
C11_Witness ==
  /\ pstate = "running"
  /\ last_op.op = "keymap"
  /\ last_op.reqs = <<>>
  /\ last_op.ev.key = old_kb_map_shm
  /\ xkb_state # {}

(***************************************************************************)
(* The virtual pointer.                                                    *)
(***************************************************************************)
\* C12: in the requests of a drain, the requests sent for a released button
\* or scroll packet are consecutive, all on the virtual pointer, and end
\* with a frame request, the only frame request among them; the requests of
\* the packet released next come after it.
C12_FrameClosesPacket ==
  last_op.op = "release" =>
    \A k \in 1 .. Len(last_op.emitted) :
      LET p == last_op.emitted[k]
          mine == {n \in 1 .. Len(last_op.reqs) : last_op.reqs[n].call = p.id}
          frames == {n \in mine : last_op.reqs[n].req = "frame"}
      IN (p.li_event.type = "POINTER_BUTTON" \/ p.li_event.type \in ScrollTypes) =>
           /\ mine # {}
           /\ \A n \in mine : last_op.reqs[n].obj = "virt_pointer"
           /\ \A m, n \in mine : \A j \in m .. n : j \in mine
           /\ Cardinality(frames) = 1
           /\ \A f \in frames : \A n \in mine : n <= f
           /\ \A j \in 1 .. Len(last_op.emitted) :
                j > k => \A m \in mine, n \in 1 .. Len(last_op.reqs) :
                           last_op.reqs[n].call = last_op.emitted[j].id => m < n

\* One drain has released a scroll on two axes and then a button: five
\* requests for the scroll, the fifth the frame, then button and frame.
C12_Witness ==
  /\ last_op.op = "release"
  /\ Len(last_op.emitted) = 2
  /\ last_op.emitted[1].li_event.type = "POINTER_SCROLL_FINGER"
  /\ last_op.emitted[2].li_event.type = "POINTER_BUTTON"
  /\ Len(last_op.reqs) = 7
  /\ last_op.reqs[5].req = "frame"
  /\ last_op.reqs[6].req = "button"
  /\ last_op.reqs[7].req = "frame"

\* C13: among the requests sent for a released scroll packet there is, for
\* an axis the packet carries, one axis or axis_stop request of that axis:
\* axis_stop when the value is zero, axis with the value as wl_fixed when it
\* is not; the request after it is axis_source with the source of the
\* event type (wheel 0, finger 1, continuous 2).  An axis the packet does
\* not carry has no request.
C13_ScrollAxisRequests ==
  last_op.op = "release" =>
    \A k \in 1 .. Len(last_op.emitted) :
      LET p == last_op.emitted[k]
          ev == p.li_event
          source == IF ev.type = "POINTER_SCROLL_WHEEL" THEN 0
                    ELSE IF ev.type = "POINTER_SCROLL_FINGER" THEN 1 ELSE 2
          of_axis(axis) ==
            {n \in 1 .. Len(last_op.reqs) :
               /\ last_op.reqs[n].call = p.id
               /\ last_op.reqs[n].req \in {"axis", "axis_stop"}
               /\ last_op.reqs[n].a = axis}
          value(axis) == IF axis = 0 THEN ev.vert ELSE ev.horiz
      IN ev.type \in ScrollTypes =>
           \A axis \in {0, 1} :
             IF value(axis) = NoAxis THEN of_axis(axis) = {}
             ELSE /\ Cardinality(of_axis(axis)) = 1
                  /\ \A n \in of_axis(axis) :
                       /\ (value(axis) = 0) <=> (last_op.reqs[n].req = "axis_stop")
                       /\ value(axis) # 0 =>
                            last_op.reqs[n].b = wl_fixed_from_double(value(axis))
                       /\ last_op.reqs[n].time = Uint32(p.sched_time)
                       /\ n < Len(last_op.reqs)
                       /\ last_op.reqs[n + 1].call = p.id
                       /\ last_op.reqs[n + 1].obj = "virt_pointer"
                       /\ last_op.reqs[n + 1].req = "axis_source"
                       /\ last_op.reqs[n + 1].a = source

\* A finger scroll with a vertical value and a horizontal value of zero has
\* been released: axis, axis_source, axis_stop, axis_source, frame.
C13_Witness ==
  /\ last_op.op = "release"
  /\ Len(last_op.emitted) = 1
  /\ last_op.emitted[1].li_event.type = "POINTER_SCROLL_FINGER"
  /\ Len(last_op.reqs) = 5
  /\ last_op.reqs[1].req = "axis"
  /\ last_op.reqs[2].req = "axis_source"
  /\ last_op.reqs[2].a = 1
  /\ last_op.reqs[3].req = "axis_stop"
  /\ last_op.reqs[4].req = "axis_source"

(***************************************************************************)
(* The keep-alive.                                                         *)
(***************************************************************************)
\* C14: from every clock value t a keep-alive is sent at a clock value of
\* at most t + 2 * max_delay; the step that sends it sends one absolute
\* motion to the cursor pixel in the global space, leaves the cursor and
\* the queue as they were and sets the next deadline to a value from now
\* to now + max_delay; no other step changes the deadline.
C14_KeepAlive ==
  /\ \A t \in 0 .. MaxTime :
       (clock = t) ~>
         (last_op.op = "keepalive" /\ t <= last_op.now /\ last_op.now <= t + 2 * max_delay)
  /\ [][/\ last_op'.op = "keepalive" =>
            /\ last_op'.now = clock'
            /\ last_op'.now >= next_mouse_move_time
            /\ last_op'.now <= next_mouse_move_time'
            /\ next_mouse_move_time' <= last_op'.now + max_delay
            /\ UNCHANGED <<cursor_x, cursor_y, prev_cursor_x, prev_cursor_y>>
            /\ UNCHANGED <<head, prev_release_time, next_id, released>>
            /\ Len(last_op'.reqs) = 1
            /\ last_op'.reqs[1].obj = "virt_pointer"
            /\ last_op'.reqs[1].req = "motion_absolute"
            /\ last_op'.reqs[1].a = cursor_x
            /\ last_op'.reqs[1].b = cursor_y
            /\ last_op'.reqs[1].c = global_space_width
            /\ last_op'.reqs[1].d = global_space_height
       /\ last_op'.op # "keepalive" => UNCHANGED next_mouse_move_time]_vars

\* A keep-alive has been sent, later than the first millisecond, with the
\* cursor moved off the origin and a packet waiting in the queue, and the
\* next deadline is max_delay ahead.
C14_Witness ==
  /\ last_op.op = "keepalive"
  /\ last_op.now > 1
  /\ cursor_x = 1
  /\ Len(head) = 1
  /\ next_mouse_move_time = last_op.now + max_delay

(***************************************************************************)
(* The global space.                                                       *)
(***************************************************************************)
\* C15: while outputs are unplugged and the compositor closes the row, one
\* output after the other, no call of recalc_global_space, from
\* registry_handle_global_remove or from wl_output_info_done, ends the
\* process once the compositor has begun to move the outputs that remain.
C15_UnplugNeverExits ==
  (/\ last_op.op \in {"remove", "done"}
   /\ \E i \in Slots : /\ output_geometry[i].alloc
                        /\ output_geometry[i].x # UnplugGeometry[i].x) =>
    pstate # "exited"

\* Two outputs share an edge: a vertical or a horizontal boundary of one
\* lies on a boundary of the other, over a stretch that is not empty.
ShareEdge(a, b) ==
  \/ /\ a.x + a.width = b.x \/ b.x + b.width = a.x
     /\ Max(a.y, b.y) < Min(a.y + a.height, b.y + b.height)
  \/ /\ a.y + a.height = b.y \/ b.y + b.height = a.y
     /\ Max(a.x, b.x) < Min(a.x + a.width, b.x + b.width)

\* The initialized outputs reached from those of S over shared edges.
RECURSIVE EdgeReach(_, _, _)
EdgeReach(geom, S, fuel) ==
  IF fuel = 0 THEN S
  ELSE EdgeReach(geom,
                 S \cup {j \in Slots :
                           /\ geom[j].alloc /\ geom[j].init_done
                           /\ \E i \in S : ShareEdge(geom[i], geom[j])},
                 fuel - 1)

EdgeConnected(geom) ==
  LET D == {i \in Slots : geom[i].alloc /\ geom[i].init_done}
  IN \A i \in D : EdgeReach(geom, {i}, MAX_DRAWABLE_LAYERS) = D

\* C16: when wl_output_info_done has called recalc_global_space for
\* initialized outputs none of which is empty, the process has exited if and
\* only if the initialized outputs are not edge-connected.
C16_ExitIffNotEdgeConnected ==
  (/\ last_op.op = "done"
   /\ \A i \in Slots :
        (output_geometry[i].alloc /\ output_geometry[i].init_done) =>
          (output_geometry[i].width > 0 /\ output_geometry[i].height > 0)) =>
    (pstate = "exited" <=> ~EdgeConnected(output_geometry))

(***************************************************************************)
(* The random source.                                                      *)
(***************************************************************************)
\* C17: for the call random_between(now, now + max_delay) of a keep-alive,
\* every result lies from now to now + max_delay, and every integer of that
\* interval is the result for the same number of the raw words that end the
\* rejection loop.
C17_RandomBetweenUnbiased ==
  last_op.op = "keepalive" =>
    LET lower == last_op.now
        upper == last_op.now + max_delay
        maxval == upper - lower + 1
        images(k) == {r \in accepted_raw(maxval) : lower + (r % maxval) = k}
    IN /\ \A k \in random_between(lower, upper) : lower <= k /\ k <= upper
       /\ \A j, k \in lower .. upper :
            Cardinality(images(j)) = Cardinality(images(k))

\* C18: when the read of a random_between call that computes a delay has
\* returned an error or fewer bytes than asked for, the process has exited
\* and no packet has been admitted with a delay.
C18_FailedReadIsFatal ==
  (/\ last_op.op = "schedule"
   /\ last_op.read # NoRead
   /\ last_op.read # RandBytes) =>
    pstate = "exited"

(***************************************************************************)
(* Input devices.                                                          *)
(***************************************************************************)
\* C19: every descriptor libinput holds is an open descriptor on which the
\* grab succeeded, and a call of li_open_restricted in which open or the
\* grab failed has ended the process.
C19_OnlyGrabbedDevices ==
  /\ \A d \in li_fds : d.fd >= 0 /\ d.grabbed
  /\ (last_op.op = "open_restricted" /\ (last_op.ev.key < 0 \/ last_op.ev.state < 0)) =>
       pstate = "exited"

\* A second device has been opened and grabbed by hot-plug, after a packet
\* was released.
C19_Witness ==
  /\ pstate = "running"
  /\ last_op.op = "open_restricted"
  /\ last_op.ev.key = 1
  /\ Cardinality(li_fds) = 2
  /\ Len(released) > 0

(***************************************************************************)
(* The overlay.                                                            *)
(***************************************************************************)
\* C20: the damage requests of a draw are, for every layer drawn, the
\* square around the cursor position drawn last and the square around the
\* cursor, each with an origin coordinate below zero replaced by zero, the
\* other origin coordinate as it is, and the extents x + CURSOR_RADIUS + 1
\* and y + CURSOR_RADIUS + 1 as draw_frame passes them.
C20_DamageClamped ==
  [][LET rect(x, y) ==
           Req("surface", "damage_buffer", NoTime,
               IF x - CURSOR_RADIUS < 0 THEN 0 ELSE x - CURSOR_RADIUS,
               IF y - CURSOR_RADIUS < 0 THEN 0 ELSE y - CURSOR_RADIUS,
               x + CURSOR_RADIUS + 1, y + CURSOR_RADIUS + 1, 0)
         coord == abs_coord_to_screen_local_coord(output_geometry, cursor_x, cursor_y)
         expected(i) ==
           (IF layer[i].last_drawn_cursor_x >= 0 /\ layer[i].last_drawn_cursor_y >= 0
              THEN <<rect(layer[i].last_drawn_cursor_x, layer[i].last_drawn_cursor_y)>>
              ELSE <<>>)
           \o (IF coord.output_idx = i THEN <<rect(coord.x, coord.y)>> ELSE <<>>)
         drawn(i) ==
           /\ layer[i].alloc /\ layer[i].frame_pending
           /\ layer[i].frame_released /\ layer[i].layer_surface_configured
         RECURSIVE all(_)
         all(i) == IF i = MAX_DRAWABLE_LAYERS THEN <<>>
                   ELSE (IF drawn(i) THEN expected(i) ELSE <<>>) \o all(i + 1)
     IN /\ (pc = "draw" /\ pc' = "poll") => last_op'.reqs = all(0)
        /\ (last_op'.op = "configure" /\ pstate' = "running") =>
             last_op'.reqs = IF layer[last_op'.ev.key].frame_released
                               THEN expected(last_op'.ev.key) ELSE <<>>]_vars

\* A draw with the cursor at (2, 0) of its output has sent a damage request
\* whose x origin is above zero and whose y origin, below zero as passed,
\* is zero.
C20_Witness ==
  /\ last_op.op = "draw"
  /\ cursor_x = 2
  /\ cursor_y = 0
  /\ \E k \in 1 .. Len(last_op.reqs) :
       /\ last_op.reqs[k].a = 2 - CURSOR_RADIUS
       /\ last_op.reqs[k].a > 0
       /\ last_op.reqs[k].b = 0
       /\ last_op.reqs[k].c = 2 + CURSOR_RADIUS + 1
       /\ last_op.reqs[k].d = CURSOR_RADIUS + 1

(***************************************************************************)
(* Shared memory names.                                                    *)
(***************************************************************************)
Letters == (65 .. 90) \cup (97 .. 122)

\* The byte values that end the do loop of randname with letter l.
BytesGiving(l) ==
  {b \in Bytes : /\ ~randname_rejects(clear_high_bit(b))
                 /\ randname_letter(clear_high_bit(b)) = l}

\* Every letter is given by as many accepted byte values as A is, and no
\* accepted byte value gives anything but a letter.
UniformLetters ==
  /\ \A l \in Letters : Cardinality(BytesGiving(l)) = Cardinality(BytesGiving(65))
  /\ Cardinality(BytesGiving(65)) > 0
  /\ \A b \in Bytes :
       ~randname_rejects(clear_high_bit(b)) => randname_letter(clear_high_bit(b)) \in Letters

\* C21: the name create_shm_file passes to shm_open is "/kloak-" followed
\* by exactly 10 characters, each a letter A-Z or a-z, whatever the random
\* source delivered; the characters already written are letters at every
\* step; and every one of the 52 letters is given by the same number of
\* accepted byte values.
C21_ShmNameFormat ==
  /\ pc = "shm" =>
       /\ Len(shm.name) = 7 + 10
       /\ SubSeq(shm.name, 1, 7) = <<47, 107, 108, 111, 97, 107, 45>>
       /\ \A k \in 1 .. shm.i : shm.name[7 + k] \in Letters
       /\ shm.i <= 10
  /\ UniformLetters

\* A second name, complete and about to be passed to shm_open, that begins
\* with Z and ends with z.
C21_Witness ==
  /\ pc = "shm"
  /\ shm.i = NameLen
  /\ shm.retries < ShmRetries
  /\ shm.name[8] = 90
  /\ shm.name[17] = 122

(***************************************************************************)
(* Keys and the keymap-state tracker.                                      *)
(***************************************************************************)
\* The keycodes the tracker holds down after the first n of the key packets
\* in emitted have been applied to held, each as keycode + 8.
RECURSIVE TrackerAfter(_, _, _)
TrackerAfter(held, emitted, n) ==
  IF n = 0 THEN held
  ELSE LET before == TrackerAfter(held, emitted, n - 1)
           e == emitted[n].li_event
       IN IF e.type # "KEYBOARD_KEY" THEN before
          ELSE IF e.state = 1 THEN before \cup {e.key + 8}
          ELSE before \ {e.key + 8}

\* C22: in a drain made while the keymap is set, every released key packet
\* with raw code k sends exactly a modifiers request and then a key request;
\* the key request carries k itself and the packet's direction and release
\* time; the modifiers request carries the tracker state left by the keys
\* released before (in earlier drains and earlier in this one), k not
\* included; and the drain leaves the tracker advanced by every released
\* key, each with keycode k + 8 in its direction.
C22_KeyThenTracker ==
  [][(last_op'.op = "release" /\ virt_kb_keymap_set) =>
       /\ \A n \in 1 .. Len(last_op'.emitted) :
            LET packet == last_op'.emitted[n]
                mine == SelectSeq(last_op'.reqs, LAMBDA r : r.call = packet.id)
                before == TrackerAfter(xkb_state, last_op'.emitted, n - 1)
            IN packet.li_event.type = "KEYBOARD_KEY" =>
                 /\ Len(mine) = 2
                 /\ mine[1] = Req("virt_kb", "modifiers", NoTime,
                                  IF 50 \in before THEN 1 ELSE 0, 0, 0, 0, packet.id)
                 /\ mine[2] = Req("virt_kb", "key", Uint32(packet.sched_time),
                                  packet.li_event.key, packet.li_event.state, 0, 0,
                                  packet.id)
       /\ xkb_state' = TrackerAfter(xkb_state, last_op'.emitted,
                                    Len(last_op'.emitted))]_vars

\* One drain has released the press of Shift and then the press of key 30:
\* the modifiers sent before Shift do not hold it, those sent before key 30
\* do, and the tracker holds keycodes 50 and 38.
C22_Witness ==
  /\ last_op.op = "release"
  /\ Len(last_op.reqs) = 4
  /\ last_op.reqs[1].req = "modifiers"
  /\ last_op.reqs[1].a = 0
  /\ last_op.reqs[2].req = "key"
  /\ last_op.reqs[2].a = 42
  /\ last_op.reqs[3].req = "modifiers"
  /\ last_op.reqs[3].a = 1
  /\ last_op.reqs[4].a = 30
  /\ xkb_state = {50, 38}

(***************************************************************************)
(* Recovery of the cursor.                                                 *)
(***************************************************************************)
\* The slots whose output is initialized.
InitializedSlots ==
  {i \in Slots : layer[i].alloc /\ output_geometry[i].alloc /\ output_geometry[i].init_done}

\* C23: a call of update_virtual_cursor that finds the previous position in
\* no initialized output, while some output is initialized, starts its walk
\* with the previous and the current position both at local pixel (0, 0) of
\* the initialized output in the lowest slot.
C23_ResetToFirstOutput ==
  [][(last_op'.op = "schedule" /\ last_op'.reset /\ InitializedSlots # {}
        /\ pstate' = "running") =>
       LET first == FirstOf(InitializedSlots)
           origin == Coord(output_geometry[first].x, output_geometry[first].y)
       IN /\ last_op'.start = origin
          /\ last_op'.want = origin
          /\ prev_cursor_x' = origin.x
          /\ prev_cursor_y' = origin.y]_vars

(***************************************************************************)
(* The overlays.                                                           *)
(***************************************************************************)
\* draw_frame has drawn on the overlay of slot i in this step: it has used
\* up the released frame.
Drawn(i) ==
  /\ layer[i].alloc
  /\ layer'[i].alloc
  /\ layer[i].frame_released
  /\ ~layer'[i].frame_released

\* C24: while every announced output is initialized and has a positive
\* size, a draw_frame that leaves an overlay with last-drawn coordinates
\* other than the sentinel has found the cursor pixel in the output of that
\* overlay, and has recorded the pixel's coordinates local to that output.
C24_CrosshairOnlyWhereCursorIs ==
  [][(\A j \in Slots :
         layer[j].alloc => /\ j \in InitializedSlots
                           /\ output_geometry[j].width > 0
                           /\ output_geometry[j].height > 0) =>
       \A i \in Slots :
         (Drawn(i) /\ (layer'[i].last_drawn_cursor_x >= 0
                         \/ layer'[i].last_drawn_cursor_y >= 0)) =>
           /\ Covers(output_geometry[i], cursor_x, cursor_y)
           /\ layer'[i].last_drawn_cursor_x = cursor_x - output_geometry[i].x
           /\ layer'[i].last_drawn_cursor_y = cursor_y - output_geometry[i].y]_vars

\* draw_frame on the overlay of slot i returns at line 769 or 771.
Skips(i) == ~layer[i].frame_released \/ ~layer[i].layer_surface_configured

\* C25: when the loop of main calls draw_frame on an overlay whose frame is
\* not released or whose surface is not configured, the overlay keeps every
\* field, among them buffer, frame_pending and the last-drawn coordinates,
\* and when that is so for every overlay the loop calls it on, no request
\* is sent; and a configure event for an overlay whose frame is not
\* released sets its size and marks it configured, and draw_frame then
\* leaves buffer, frame_pending, frame_released and the last-drawn
\* coordinates alone and sends no request.
C25_SkippedDrawChangesNothing ==
  [][/\ (pc = "draw" /\ pc' = "poll") =>
          LET called == {i \in Slots : layer[i].alloc /\ layer[i].frame_pending}
          IN /\ \A i \in called : Skips(i) => layer'[i] = layer[i]
             /\ (\A i \in called : Skips(i)) => last_op'.reqs = <<>>
     /\ (last_op'.op = "configure" /\ pstate' = "running") =>
          LET i == last_op'.ev.key
          IN ~layer[i].frame_released =>
               /\ layer'[i] = [layer[i] EXCEPT !.width = last_op'.ev.dx,
                                               !.height = last_op'.ev.dy,
                                               !.layer_surface_configured = TRUE]
               /\ last_op'.reqs = <<>>]_vars

\* The loop of main has just called draw_frame on a configured overlay whose
\* buffer the compositor still holds: the frame is still pending.
C25_Witness ==
  /\ pc = "poll"
  /\ layer[0].alloc
  /\ layer[0].layer_surface_configured
  /\ layer[0].frame_pending
  /\ ~layer[0].frame_released
  /\ layer[0].buffer # 0
  /\ layer[0].last_drawn_cursor_x >= 0

(***************************************************************************)
(* Outputs and their geometry.                                             *)
(***************************************************************************)
\* The pixels the model asks about.
Pixels == {Coord(x, y) : x \in 0 .. 3, y \in 0 .. 3}

\* The largest of a non-empty set of numbers, and the smallest.
Largest(S) == CHOOSE v \in S : \A w \in S : w <= v

Smallest(S) == CHOOSE v \in S : \A w \in S : v <= w

\* C26: init_done of an output becomes true only in a geometry-done event
\* for that output that finds its position and size not all zero; a done
\* event that finds them all zero changes nothing, init_done included; a
\* pixel is found only in an output whose init_done is true; and a global
\* space that changes reaches to the farthest right and bottom edge of the
\* outputs whose init_done is true, the others not counting.
C26_IgnoredUntilDone ==
  /\ [](\A p \in Pixels :
          LET r == abs_coord_to_screen_local_coord(output_geometry, p.x, p.y)
          IN r.valid => /\ output_geometry[r.output_idx].alloc
                        /\ output_geometry[r.output_idx].init_done)
  /\ [][/\ \A i \in Slots :
             (~output_geometry[i].init_done /\ output_geometry'[i].init_done) =>
               /\ last_op'.op = "done"
               /\ last_op'.ev.key = i
               /\ ~(/\ output_geometry[i].x = 0 /\ output_geometry[i].y = 0
                    /\ output_geometry[i].width = 0 /\ output_geometry[i].height = 0)
        /\ last_op'.op = "done_zero" =>
             /\ output_geometry[last_op'.ev.key].x = 0
             /\ output_geometry[last_op'.ev.key].width = 0
             /\ UNCHANGED <<clock, pc, pstate, schedVars, cursorVars, dispVars, kbVars,
                            li_fds, shm, detached_buffers,
                         next_id, released>>
        /\ (global_space_width' # global_space_width
              \/ global_space_height' # global_space_height) =>
             LET done == {i \in Slots : output_geometry'[i].alloc
                                          /\ output_geometry'[i].init_done}
             IN /\ done # {}
                /\ global_space_width' =
                     Largest({output_geometry'[i].x + output_geometry'[i].width : i \in done})
                /\ global_space_height' =
                     Largest({output_geometry'[i].y + output_geometry'[i].height :
                                i \in done})]_vars

\* A done event has just been ignored for an output that has a geometry
\* record, all zero, while another output is initialized and spans the
\* global space.
C26_Witness ==
  /\ last_op.op = "done_zero"
  /\ output_geometry[last_op.ev.key].alloc
  /\ ~output_geometry[last_op.ev.key].init_done
  /\ InitializedSlots # {}
  /\ global_space_width > 0

\* C27: while the manager is bound, every slot that holds an output holds a
\* logical-geometry handle and a geometry record, and a slot that holds no
\* output holds neither; and a handle is requested only for a slot that
\* holds an output and had no handle, at most once a step.
C27_EveryOutputHasGeometry ==
  /\ [](\A i \in Slots :
          /\ (xdg_output_manager /\ layer[i].alloc) =>
               /\ output[i] # 0
               /\ xdg_output[i] # 0
               /\ output_geometry[i].alloc
          /\ (xdg_output[i] # 0 <=> output_geometry[i].alloc)
          /\ xdg_output[i] # 0 => layer[i].alloc /\ output[i] # 0)
  /\ [][/\ \A k \in 1 .. Len(last_op'.reqs) :
             last_op'.reqs[k].req = "get_xdg_output" =>
               /\ xdg_output[last_op'.reqs[k].a] = 0
               /\ ~output_geometry[last_op'.reqs[k].a].alloc
               /\ output'[last_op'.reqs[k].a] # 0
               /\ xdg_output'[last_op'.reqs[k].a] # 0
               /\ \A m \in 1 .. Len(last_op'.reqs) :
                    last_op'.reqs[m] = last_op'.reqs[k] => m = k
        /\ \A i \in Slots :
             (xdg_output[i] = 0 /\ xdg_output'[i] # 0) =>
               \E k \in 1 .. Len(last_op'.reqs) : last_op'.reqs[k] = get_xdg_output(i)]_vars

\* The manager has just been bound after two outputs, and has requested the
\* handles of both.
C27_Witness ==
  /\ last_op.op = "global"
  /\ last_op.ev.type = "zxdg_output_manager_v1"
  /\ last_op.reqs = <<get_xdg_output(0), get_xdg_output(1)>>
  /\ output_geometry[0].alloc
  /\ output_geometry[1].alloc

\* Slot i holds nothing: no overlay, no output binding, no registry name, no
\* logical-geometry handle and no geometry record.
Cleared(lay, out, names, xdg, geom, i) ==
  /\ ~lay[i].alloc
  /\ out[i] = 0
  /\ names[i] = 0
  /\ xdg[i] = 0
  /\ ~geom[i].alloc

InterpretedTypes ==
  {"KEYBOARD_KEY", "POINTER_BUTTON", "DEVICE_ADDED"} \cup ScrollTypes \cup MotionTypes

\* C29: an event of a kind that is not interpreted leaves the queue and
\* prev_release_time as they are when it is read, and no request is sent
\* for a packet of such a kind.
C29_ForeignEventHasNoEffect ==
  [][/\ (last_op'.op = "schedule" /\ last_op'.ev.type \notin InterpretedTypes) =>
          /\ head' = head
          /\ prev_release_time' = prev_release_time
     /\ last_op'.op = "release" =>
          \A n \in 1 .. Len(last_op'.emitted) :
            last_op'.emitted[n].li_event.type \notin InterpretedTypes =>
              \A k \in 1 .. Len(last_op'.reqs) :
                last_op'.reqs[k].call # last_op'.emitted[n].id]_vars

(***************************************************************************)
(* The global space.                                                       *)
(***************************************************************************)
\* recalc_global_space on geometry geom reaches the assignments of lines
\* 250-251: some output is initialized and the test of lines 207-229 finds
\* every initialized output connected.
Recalculated(geom) ==
  LET screens == screen_list(geom)
  IN /\ Len(screens) >= 1
     /\ Len(conn_screen_list(screens, <<1>>, 1, 1)) = Len(screens)

\* C30: after a geometry-done event or a removal whose recalculation sets
\* the global space, the initialized outputs all having a positive size,
\* global_space_width is the largest right edge minus the smallest left
\* edge of the initialized outputs and global_space_height the largest
\* bottom edge minus the smallest top edge.
C30_GlobalSpaceIsBoundingBox ==
  [][(/\ last_op'.op \in {"done", "remove"}
      /\ pstate' = "running"
      /\ Recalculated(output_geometry')
      /\ \A i \in Slots :
           (output_geometry'[i].alloc /\ output_geometry'[i].init_done) =>
             output_geometry'[i].width > 0 /\ output_geometry'[i].height > 0) =>
       LET done == {i \in Slots : output_geometry'[i].alloc
                                    /\ output_geometry'[i].init_done}
           left == Smallest({output_geometry'[i].x : i \in done})
           top == Smallest({output_geometry'[i].y : i \in done})
           right == Largest({output_geometry'[i].x + output_geometry'[i].width :
                               i \in done})
           bottom == Largest({output_geometry'[i].y + output_geometry'[i].height :
                                i \in done})
       IN /\ global_space_width' = right - left
          /\ global_space_height' = bottom - top]_vars

(***************************************************************************)
(* Timestamps and determinism of what is emitted.                          *)
(***************************************************************************)
\* The requests of a drain that carry a timestamp, in the order sent.
StampedReqs == SelectSeq(last_op.reqs, LAMBDA r : r.time # NoTime)

\* Every key, button, axis and axis_stop request of a drain carries the
\* release time of the packet it was sent for, converted to uint32_t.
StampIsReleaseTime ==
  last_op.op = "release" =>
    \A n \in 1 .. Len(last_op.reqs) :
      LET r == last_op.reqs[n]
      IN r.req \in {"key", "button", "axis", "axis_stop"} =>
           \E k \in 1 .. Len(last_op.emitted) :
             /\ last_op.emitted[k].id = r.call
             /\ r.time = last_op.emitted[k].sched_time % (2 ^ 20)

SentFor(id) ==
  LET mine == SelectSeq(last_op.reqs, LAMBDA r : r.call = id)
  IN [n \in 1 .. Len(mine) |-> [mine[n] EXCEPT !.time = NoTime]]

\* A drain has released the packet of the given id.
Releases(id) ==
  /\ last_op.op = "release"
  /\ \E k \in 1 .. Len(last_op.emitted) : last_op.emitted[k].id = id

\* C32: in the run of SpecReplay, what is sent for the key and for the button
\* is the same whatever delays were drawn: it is what the run whose draws
\* all return the delay 0 sends, nothing for the key, which that run
\* releases before the keymap has arrived, and button and frame for the
\* button.
C32_EmittedWhateverTheDelay ==
  /\ Releases(1) => SentFor(1) = <<>>
  /\ Releases(2) =>
       SentFor(2) = <<Req("virt_pointer", "button", NoTime, 272, 1, 0, 0, 2),
                      Req("virt_pointer", "frame", NoTime, 0, 0, 0, 0, 2)>>

\* The run whose draws return the delay 0: the drain of the first iteration
\* releases the key and the button, and sends button and frame only.
C32_Witness ==
  /\ Releases(1)
  /\ Releases(2)
  /\ last_op.now = 0
  /\ SentFor(1) = <<>>
  /\ Len(last_op.reqs) = 2

\* C33: a drain made while no keymap is set sends no request for the key
\* packets it releases and leaves the keymap-state tracker as it was; the
\* packets have left the queue and are recorded as released.  A request for
\* a packet is sent only by the drain that releases it, a released packet is
\* never in the queue again and is released once, so a key dropped is not
\* sent after the keymap has arrived.
C33_KeyWithoutKeymapDiscarded ==
  /\ [](/\ \A n \in 1 .. Len(last_op.reqs) :
             last_op.reqs[n].call # 0 => Releases(last_op.reqs[n].call)
        /\ \A k \in 1 .. Len(head), n \in 1 .. Len(released) :
             head[k].id # released[n]
        /\ \A m, n \in 1 .. Len(released) : m < n => released[m] # released[n])
  /\ [][(last_op'.op = "release" /\ ~virt_kb_keymap_set) =>
          /\ xkb_state' = xkb_state
          /\ ~virt_kb_keymap_set'
          /\ \A k \in 1 .. Len(last_op'.emitted) :
               LET packet == last_op'.emitted[k]
               IN packet.li_event.type = "KEYBOARD_KEY" =>
                    /\ \A n \in 1 .. Len(last_op'.reqs) :
                         last_op'.reqs[n].call # packet.id
                    /\ \A n \in 1 .. Len(head') : head'[n].id # packet.id
                    /\ \E n \in 1 .. Len(released') : released'[n] = packet.id]_vars

\* The first keymap has just been accepted, after the clock has advanced; a
\* key, admitted and released before, has left the queue, and the tracker
\* does not hold it.
C33_Witness ==
  /\ last_op.op = "keymap"
  /\ last_op.reqs # <<>>
  /\ virt_kb_keymap_set
  /\ released = <<1>>
  /\ head = <<>>
  /\ xkb_state = {}
  /\ clock > 0

(***************************************************************************)
(* Buffers of the overlays.                                                *)
(***************************************************************************)
\* C34: an allocated overlay has frame_released false exactly while it holds
\* a buffer; the buffers held and the buffers of freed overlays are all
\* distinct; no step gives an overlay that holds a buffer another buffer,
\* and an overlay gets a buffer only when its frame is released and its
\* surface configured; a release changes no overlay but the one holding the
\* buffer, and the release of the buffer of a freed overlay changes none.
C34_OneBufferOutstanding ==
  /\ [](/\ \A i \in Slots :
             layer[i].alloc => (~layer[i].frame_released <=> layer[i].buffer # 0)
        /\ \A i, j \in Slots :
             (layer[i].alloc /\ layer[j].alloc /\ i # j /\ layer[i].buffer # 0) =>
               layer[i].buffer # layer[j].buffer
        /\ \A i \in Slots : layer[i].alloc => layer[i].buffer \notin detached_buffers)
  /\ [][/\ \A i \in Slots :
             (layer[i].alloc /\ layer'[i].alloc) =>
               /\ layer[i].buffer # 0 => layer'[i].buffer \in {layer[i].buffer, 0}
               /\ (layer[i].buffer = 0 /\ layer'[i].buffer # 0) =>
                    /\ layer[i].frame_released
                    /\ layer'[i].layer_surface_configured
                    /\ layer'[i].buffer \notin live_buffers(layer)
        /\ \A i \in Slots :
             (layer[i].alloc /\ layer[i].buffer # 0 /\ layer'[i].alloc
              /\ layer'[i].buffer = 0) =>
               \A j \in Slots : j # i => layer'[j] = layer[j]
        /\ last_op'.op = "release_detached" =>
             /\ layer' = layer
             /\ \E b \in detached_buffers : detached_buffers' = detached_buffers \ {b}]_vars

\* The buffer of a freed overlay has just been released, while the overlay
\* that took its slot holds a buffer of its own and waits for its release,
\* and so does the overlay of the other output.
C34_Witness ==
  /\ last_op.op = "release_detached"
  /\ detached_buffers = {}
  /\ layer[0].alloc /\ layer[0].buffer = 1 + MAX_DRAWABLE_LAYERS
  /\ ~layer[0].frame_released
  /\ layer[1].alloc /\ layer[1].buffer = 2
  /\ ~layer[1].frame_released

\* The last-drawn coordinates of record l, of the overlay of slot i, agree
\* with the cursor at (cx, cy): they are the cursor's position local to
\* output i if the cursor is on that output, and the sentinel otherwise.
AgreesWithCursor(l, geom, i, cx, cy) ==
  LET coord == abs_coord_to_screen_local_coord(geom, cx, cy)
  IN IF coord.valid /\ coord.output_idx = i
       THEN l.last_drawn_cursor_x = coord.x /\ l.last_drawn_cursor_y = coord.y
       ELSE l.last_drawn_cursor_x = 0 - 1 /\ l.last_drawn_cursor_y = 0 - 1

LayoutSettled ==
  /\ \A i \in Slots : output_geometry[i].alloc => output_geometry[i].init_done
  /\ \A i, j \in Slots :
       (i # j /\ output_geometry[i].alloc /\ output_geometry[j].alloc) =>
         \/ output_geometry[i].x + output_geometry[i].width <= output_geometry[j].x
         \/ output_geometry[j].x + output_geometry[j].width <= output_geometry[i].x
         \/ output_geometry[i].y + output_geometry[i].height <= output_geometry[j].y
         \/ output_geometry[j].y + output_geometry[j].height <= output_geometry[i].y
  /\ abs_coord_to_screen_local_coord(output_geometry, cursor_x, cursor_y).valid

\* C36: in every state in which the layout is settled, a configured overlay
\* that is not frame_pending has last-drawn cursor coordinates that agree
\* with the cursor: its position local to the overlay's output if the cursor
\* is on that output, and the sentinel otherwise.
C36_NoStaleCrosshair ==
  LayoutSettled =>
    \A i \in Slots :
      (layer[i].alloc /\ layer[i].layer_surface_configured /\ ~layer[i].frame_pending) =>
        AgreesWithCursor(layer[i], output_geometry, i, cursor_x, cursor_y)

\* The compositor has exchanged the two outputs: the overlay of the first
\* output, now at (1, 0), still shows the crosshair it drew when the output
\* was under the cursor at (0, 0), the overlay of the second output, now
\* under the cursor, shows none, and neither is frame_pending.
C36_Witness ==
  /\ LayoutSettled
  /\ output_geometry[0].x = 1 /\ output_geometry[1].x = 0
  /\ cursor_x = 0 /\ cursor_y = 0
  /\ layer[0].layer_surface_configured /\ ~layer[0].frame_pending
  /\ layer[0].last_drawn_cursor_x = 0 /\ layer[0].last_drawn_cursor_y = 0
  /\ layer[1].layer_surface_configured /\ ~layer[1].frame_pending
  /\ layer[1].last_drawn_cursor_x = 0 - 1
  /\ pc = "draw"

\* C37: no call of update_virtual_cursor dereferences a NULL layer or a NULL
\* geometry record: a step that handles a pointer motion never ends in the
\* crash of the process, whatever outputs are announced, done or unplugged.
C37_MotionNeverDereferencesNull ==
  [][(Running /\ last_op'.op = "schedule"
        /\ last_op'.ev.type \in {"POINTER_MOTION", "POINTER_MOTION_ABSOLUTE"}) =>
       pstate' # "crashed"]_vars

\* A pointer motion was handled while slot 0 held no overlay, and the
\* process crashed.
C37_Witness ==
  /\ pstate = "crashed"
  /\ last_op.op = "schedule"
  /\ last_op.ev.type = "POINTER_MOTION"
  /\ ~layer[0].alloc

\* The number of glide restarts (lines 933-972) of the loop from st on.
RECURSIVE glide_restarts(_, _, _)
glide_restarts(geom, st, fuel) ==
  IF fuel = 0 THEN 0
  ELSE CHOOSE n \in {IF p.done THEN 0
                     ELSE glide_restarts(geom, p, fuel - 1)
                            + (IF p.i = 0 THEN 1 ELSE 0) :
                     p \in {walk_pass(geom, st)}} : TRUE

\* C38: wherever the cursor is and however the outputs lie, the pixel walk
\* of update_virtual_cursor for the next pointer motion terminates: both end
\* flags are set and the loop breaks within MaxWalk passes, glide restarts
\* included.
C38_WalkTerminates ==
  (Running /\ pc = "input") =>
    \A ev \in LayoutEvents :
      update_virtual_cursor(layer, output_geometry, Coord(cursor_x, cursor_y),
                            requested_position(ev)).finished

\* A motion was handled whose walk restarted twice, gliding along one edge
\* and then along another, before it terminated.
C38_Witness ==
  /\ last_op.op = "schedule"
  /\ last_op.ev.type = "POINTER_MOTION"
  /\ pstate = "running"
  /\ glide_restarts(output_geometry, walk_start(last_op.start, last_op.want), MaxWalk) = 2
  /\ walk(output_geometry, walk_start(last_op.start, last_op.want), MaxWalk).finished

\* The pixels a damage_buffer request covers.
Damaged(req, x, y) ==
  /\ req.obj = "surface"
  /\ req.req = "damage_buffer"
  /\ x >= req.a /\ x < req.a + req.c
  /\ y >= req.b /\ y < req.b + req.d

\* C39: every pixel that the draw_block calls of a frame store to, of the
\* block blanked out around the last-drawn position and of the crosshair
\* block around the cursor, lies inside a rectangle that the frame passed to
\* wl_surface_damage_buffer.
C39_WritesInsideDamage ==
  \A w \in last_op.writes :
    \E k \in DOMAIN last_op.reqs : Damaged(last_op.reqs[k], w.x, w.y)

\* A frame blanked out the block around the pixel (0, 0) and drew the
\* crosshair around (1, 0), both cut off at the buffer's upper and left edge,
\* and damaged a rectangle for each.
C39_Witness ==
  /\ last_op.op = "draw"
  /\ Len(last_op.reqs) = 2
  /\ \E w \in last_op.writes : w.x = 0 /\ w.y = 0 /\ w.colour = "00000000"
  /\ \E w \in last_op.writes : w.x = 1 /\ w.y = 0 /\ w.colour = "ffff0000"
  /\ layer[0].last_drawn_cursor_x = 1
  /\ layer[0].last_drawn_cursor_y = 0

\* C40: every store of draw_block goes to an index inside the buffer of
\* layer_width x layer_height pixels, and to a column and a row inside it,
\* wherever the centre lies and also when the width or the height is zero.
C40_WritesInsideBuffer ==
  \A w \in last_op.writes :
    /\ w.index >= 0
    /\ w.index < layer[w.slot].width * layer[w.slot].height
    /\ w.x >= 0 /\ w.x < layer[w.slot].width
    /\ w.y >= 0 /\ w.y < layer[w.slot].height

\* A frame was drawn into a buffer of 2 x 1 with the cursor on the pixel
\* (2, 1) of the output, beyond the buffer's last column and row, and stored
\* to the last pixel of the buffer.
C40_Witness ==
  /\ last_op.op \in {"draw", "configure"}
  /\ layer[0].width = 2 /\ layer[0].height = 1
  /\ layer[0].last_drawn_cursor_x = 2 /\ layer[0].last_drawn_cursor_y = 1
  /\ \E w \in last_op.writes : w.index = 1 /\ w.colour = "00000000"

\* A frame was drawn into a buffer of width zero: nothing was stored.
ZeroWidthFrameStoresNothing ==
  /\ last_op.op = "configure"
  /\ layer[0].width = 0 /\ layer[0].height = 2
  /\ layer[0].buffer # 0
  /\ layer[0].last_drawn_cursor_x = 1
  /\ last_op.writes = {}

====
